---- MODULE Spec2Model ----
(***************************************************************************)
(* Model of the ticket-capture orchestrator BoletoCapturador               *)
(* (core/capturador.py) together with the collaborators it sequences:      *)
(* the camera (core/camara.py), the region detector                        *)
(* (core/detector_barras.py), the decoder (core/decodificador.py) and the  *)
(* persistence manager (core/gestor_datos.py).                             *)
(*                                                                         *)
(* All orchestrator operations run on the single UI thread                 *)
(* (ui/ventana_principal.py, ui/componentes/previsualizador.py), so one    *)
(* operation is one action.  finalizar_captura is the exception: it        *)
(* assigns the state twice (GUARDANDO, then the outcome), so it is split   *)
(* at the call into the persistence manager; while it is in flight         *)
(* (pc = "guardando") the UI thread is inside the call and no other        *)
(* operation can start.                                                    *)
(***************************************************************************)
EXTENDS Integers, Sequences, FiniteSets, TLC

(* ---------------------------- bounds ---------------------------------- *)
\* live-assist polls that reach _intentar_decodificacion_con_detector
MaxContador == 21
\* cap on _errores_totales
MaxErrores == 1
\* producer threads created over the life of one ManejadorCamara
MaxHilos == 2
\* frames the device (or the simulation) delivers
MaxLecturas == 2
\* largest argument of ManejadorCamara.iniciar(intentos)
MaxIntentos == 2
\* longest list of registered observers
MaxObservers == 2
\* grid of the corner positions of the boxes found in an image: number of
\* grid lines inside the image, distance between them and offset of the first
MaxMalla == 4
PasoMalla == 57
MargenMalla == 20
\* calls of DetectorBarrasAutomatico.detectar that are counted
MaxDetecciones == 2
\* threads that call DecodificadorBarras.decodificar at the same time
MaxLlamadores == 2
\* blanks before and after the text of a symbol
MaxEspacios == 1
\* calls of GestorDatos.finalizar_captura on one instance
MaxCapturas == 2

(* ------------------------- value universes ---------------------------- *)
None == "None"

\* frames the camera can deliver (native or preview, opaque pixel buffers)
Frames == {"F1", "F2"}
\* cropped regions a DeteccionBarras can carry
Rois == {"R1"}
\* decoded texts that pass _validar_codigo (length >= 8)
Codigos == {"12345678", "87654321"}
\* values of datetime.now().strftime("%Y%m%d_%H%M%S")
Timestamps == {"T1"}
\* coordinates returned by the detector after clamping
Coords == {"K1"}
\* coordinates derived from config.procesamiento.region_barras
CoordsConfig == "KCFG"

(* EstadoCaptura *)
LISTO == "listo"
FRENTE_CAPTURADO == "frente_capturado"
REVERSO_CAPTURADO == "reverso_capturado"
GUARDANDO == "guardando"
ERROR == "error"
EstadoCaptura == {LISTO, FRENTE_CAPTURADO, REVERSO_CAPTURADO, GUARDANDO, ERROR}

\* period of the live-assist decode throttle
PeriodoDecodificacion == 20

\* warm-up reads of ManejadorCamara.iniciar
LecturasCalentamiento == 5

\* polls of ManejadorCamara.capturar_frame_alta_resolucion
SondeosCaptura == 20

\* callbacks a client can register with agregar_observer
Observadores == {"o1", "o2"}

\* what a callback does with the array it is called with: return, raise,
\* write into the array, or call back into the camera manager
Conductas == {"retorna", "lanza", "muta", "agrega", "remueve", "lee"}

VARIABLES
    estado,                 \* BoletoCapturador._estado
    datos_actuales,         \* BoletoCapturador._datos_actuales
    ultima_roi_coords,      \* BoletoCapturador.ultima_roi_coords
    contador_dec_detector,  \* BoletoCapturador._contador_dec_detector
    errores_totales,        \* BoletoCapturador._errores_totales
    camara_activa,          \* ManejadorCamara._activa
    pc,                     \* position of the UI thread inside finalizar_captura
    ultima_op,              \* history: the last operation, the state it was invoked in,
                            \* its result and the call it made to GestorDatos
    \* ---- ManejadorCamara (core/camara.py), thread by thread ----
    modo_simulacion,        \* ManejadorCamara._modo_simulacion
    activa,                 \* ManejadorCamara._activa
    capturando,             \* ManejadorCamara._capturando
    evento_detener,         \* ManejadorCamara._evento_detener.is_set()
    captura,                \* ManejadorCamara._captura: None or an opened device
    frame_alta_res,         \* ManejadorCamara._frame_alta_res: 0 (None) or a frame number
    frame_vista,            \* ManejadorCamara._frame_vista: 0 (None) or the number of
                            \* the frame it was derived from
    hilo_captura,           \* ManejadorCamara._hilo_captura: 0 (None) or a thread id
    hilos,                  \* the producer threads created so far: position and local frame
    leidos,                 \* frames delivered so far by the device or the simulation
    principal,              \* the thread calling iniciar / detener: position and locals
    cam_op,                 \* history: the last camera call completed and what the
                            \* calling thread did during it
    observers,              \* ManejadorCamara._observers: a list of callbacks
    lock,                   \* ManejadorCamara._lock: who holds it
    notificacion,           \* per producer thread, the locals of _notificar_observers
                            \* and what its callbacks have done so far
    mutados,                \* the buffered preview arrays a consumer has written into
    detector,               \* DetectorBarrasAutomatico: its counters, the image of
                            \* the last call and what the call did
    decodificador,          \* DecodificadorBarras: its counters, the region given to
                            \* the calls and the position and locals of each caller
    gestor,                 \* GestorDatos: its fields and the directories on disk
    resolucion              \* the resolution the device reports and the preview size
                            \* iniciar derives from it

varsCapturador == <<estado, datos_actuales, ultima_roi_coords, contador_dec_detector,
                    errores_totales, camara_activa, pc, ultima_op>>

varsObservacion == <<observers, lock, notificacion, mutados>>

\* the camera but its preview slot
varsCamaraSinVista == <<modo_simulacion, activa, capturando, evento_detener, captura,
                        frame_alta_res, hilo_captura, hilos, leidos,
                        principal, cam_op, varsObservacion>>

varsCamara == <<modo_simulacion, activa, capturando, evento_detener, captura,
                frame_alta_res, frame_vista, hilo_captura, hilos, leidos,
                principal, cam_op, varsObservacion>>

varsDetector == <<detector>>

varsColaboradores == <<decodificador, gestor, resolucion>>

vars == <<varsCapturador, varsCamara, varsDetector, varsColaboradores>>

\* a producer thread that has not been created
HiloNoCreado == [pc |-> "no", frame |-> 0, sim |-> FALSE]

\* the calling thread outside every method of ManejadorCamara
PrincipalOcioso ==
    [pc |-> "idle", intentos |-> 0, intento |-> 0, warmup |-> 0, frame |-> 0,
     sondeo |-> 0, obs |-> None]

\* nobody holds self._lock
LockLibre == [de |-> "nadie", h |-> 0]

\* the calling thread holds self._lock
LockPrincipal == [de |-> "principal", h |-> 0]

\* producer thread h holds self._lock
LockHilo(h) == [de |-> "hilo", h |-> h]

\* _notificar_observers not in progress
SinNotificacion ==
    [snapshot |-> <<>>, invocados |-> <<>>, lanzo |-> FALSE, anidada |-> FALSE]

\* history value of a camera call: its name, its result, the attempt count it
\* was given, the device opens it made and how many of them succeeded, the
\* inter-attempt pauses it made, whether its join timed out and whether its
\* device release raised; for a frame read, the frame whose copy it returned
\* and the polls it made
CamOp(nombre, ret) ==
    [nombre |-> nombre, ret |-> ret, intentos |-> 0, aperturas |-> 0, abiertos |-> 0,
     pausas |-> 0, timeout |-> FALSE, fallo_liberar |-> FALSE, frame |-> 0,
     sondeos |-> 0]

\* ManejadorCamara.__init__
InitCamara ==
    /\ modo_simulacion \in BOOLEAN
    /\ activa = FALSE
    /\ capturando = FALSE
    /\ evento_detener = FALSE
    /\ captura = None
    /\ frame_alta_res = 0
    /\ frame_vista = 0
    /\ hilo_captura = 0
    /\ hilos = [h \in 1..MaxHilos |-> HiloNoCreado]
    /\ leidos = 0
    /\ principal = PrincipalOcioso
    /\ cam_op = CamOp("init", None)
    /\ observers = <<>>
    /\ lock = LockLibre
    /\ notificacion = [h \in 1..MaxHilos |-> SinNotificacion]
    /\ mutados = {}

\* the dictionary assigned in __init__ and in _reiniciar_para_siguiente_captura
DatosVacios ==
    [imagen_frente |-> None, imagen_reverso |-> None, imagen_roi |-> None,
     codigo_barras |-> None, timestamp |-> None]

\* history value: the operation made no call to GestorDatos.finalizar_captura
SinLlamada ==
    [llamado |-> FALSE, imagen_frente |-> None, imagen_reverso |-> None,
     codigo |-> None, imagen_roi |-> None, resultado |-> FALSE]

\* fallo_pendiente is history too: a start of the camera has failed and no
\* reset has been made since
Op(nombre, ret) ==
    [nombre |-> nombre, estado_antes |-> estado, ret |-> ret, gestor |-> SinLlamada,
     fallo_pendiente |-> ultima_op.fallo_pendiente]

InitCapturador ==
    /\ estado = LISTO
    /\ datos_actuales = DatosVacios
    /\ ultima_roi_coords = None
    /\ contador_dec_detector = 0
    /\ errores_totales = 0
    /\ camara_activa = FALSE
    /\ pc = "idle"
    /\ ultima_op = [nombre |-> "init", estado_antes |-> LISTO, ret |-> None,
                    gestor |-> SinLlamada, fallo_pendiente |-> FALSE]

\* an image of no size, and a detector that has not looked at any image
SinImagen ==
    [ancho |-> 0, alto |-> 0,
     caja |-> [minx |-> 0, maxx |-> 0, miny |-> 0, maxy |-> 0],
     pyzbar |-> FALSE, puntaje_gradiente |-> 0, proyeccion |-> FALSE,
     confianza_contornos |-> 0]

\* the None a strategy or a call returns instead of a DeteccionBarras
SinResultado ==
    [coordenadas |-> [x |-> 0, y |-> 0, w |-> 0, h |-> 0],
     original |-> [x |-> 0, y |-> 0, w |-> 0, h |-> 0],
     estrategia_usada |-> None, confianza |-> 0]

\* no call of the detector yet
SinDeteccion == [llamada |-> None, resultado |-> SinResultado, ejecutadas |-> <<>>]

\* the None decodificar returns, and a caller that has not called yet
SinCodigo == [hay |-> FALSE, codigo |-> <<>>]

LlamadorOcioso == [pc |-> "idle", ret |-> SinCodigo, leido |-> 0]

\* DecodificadorBarras.__init__; an empty roi stands for None, and no thread
\* is about to call decodificar
DecodificadorSinUso ==
    [roi |-> <<>>, exitos |-> 0, fallos |-> 0, hilos |-> <<>>]

\* history value: GestorDatos.finalizar_captura has not been called
SinCaptura ==
    [hay |-> FALSE, codigo |-> <<>>, directorio |-> <<>>, preparado_para |-> <<>>,
     escritos |-> {}, resultado |-> FALSE]

\* GestorDatos after __init__ over an empty ruta_base; <<>> stands for the
\* None of _directorio_actual
GestorSinUso ==
    [evitar_sobreescritura |-> TRUE, caracteres_reemplazo |-> "_",
     directorio_actual |-> <<>>, preparado_para |-> <<>>,
     existentes |-> {}, archivos |-> {}, capturas |-> 0, ultima |-> SinCaptura]

\* ManejadorCamara before iniciar has read a device resolution: no
\* _resolucion_vista_real attribute and no preview frame
SinResolucion ==
    [ancho |-> 0, alto |-> 0, calculada |-> FALSE,
     ancho_vista |-> 0, alto_vista |-> 0, frame_vista |-> <<>>]

\* a decoder, a data manager and a preview size nothing has used yet
InitColaboradoresSinUso ==
    /\ decodificador = DecodificadorSinUso
    /\ gestor = GestorSinUso
    /\ resolucion = SinResolucion

InitDetectorSinUso ==
    detector = [imagen |-> <<>>, deteccion |-> <<>>,
                detecciones_exitosas |-> 0, detecciones_fallidas |-> 0]

\* the orchestrator with a freshly constructed camera manager in real mode
Init ==
    /\ InitCapturador
    /\ InitCamara
    /\ InitDetectorSinUso
    /\ InitColaboradoresSinUso
    /\ modo_simulacion = FALSE

(* ------------------------- collaborators ------------------------------ *)
\* ManejadorCamara.capturar_frame_alta_resolucion: None when the camera is
\* not active or no frame appears within the 20 polls, else a frame copy
FramesAlta == IF camara_activa THEN Frames \cup {None} ELSE {None}

\* ManejadorCamara.obtener_frame_vista: None while nothing is buffered; it
\* does not look at _activa, so a frame left in the slot of a stopped camera
\* is returned as well
VistaDisponible == frame_vista # 0

FramesVista == IF VistaDisponible THEN Frames \cup {None} ELSE {None}

\* DetectorBarrasAutomatico.detectar: a detection (its roi) or no detection;
\* every strategy catches its own exceptions and returns None
Detecciones == Rois \cup {None}

\* DetectorBarrasAutomatico.detectar_rapido as used by the live assist: a
\* detection, none, or one whose clamped box is below 30x10
DeteccionesRapidas == Rois \cup {None, "pequena"}

\* DecodificadorBarras.decodificar: a valid code, None, or an internal
\* failure (cv2.error) of _preprocesar_variantes, which runs before the loop
\* and outside its try block
Decodificaciones == Codigos \cup {None, "raise"}

(* --------------------------- operations ------------------------------- *)
\* BoletoCapturador.iniciar_captura
IniciarCaptura ==
    /\ pc = "idle"
    /\ UNCHANGED varsCamaraSinVista
    /\ UNCHANGED varsDetector
    /\ UNCHANGED varsColaboradores
    /\ IF estado # LISTO
       THEN /\ ultima_op' = Op("iniciar_captura", "False")
            /\ UNCHANGED <<estado, errores_totales, camara_activa, frame_vista>>
       ELSE \E ok \in BOOLEAN :
              \* ManejadorCamara.iniciar returns True at once when already active
              /\ camara_activa => ok
              /\ IF ok
                 THEN \* a started camera has a preview frame buffered (in
                      \* simulation mode the polls see None)
                      /\ camara_activa' = TRUE
                      /\ frame_vista' = 1
                      /\ ultima_op' = Op("iniciar_captura", "True")
                      /\ UNCHANGED <<estado, errores_totales>>
                 ELSE \* the producer thread of a failed attempt is not
                      \* stopped and may still store the frame it has read
                      /\ errores_totales < MaxErrores
                      /\ estado' = ERROR
                      /\ errores_totales' = errores_totales + 1
                      /\ camara_activa' = FALSE
                      /\ frame_vista' \in {frame_vista, 1}
                      /\ ultima_op' = [Op("iniciar_captura", "False") EXCEPT
                                        !.fallo_pendiente = TRUE]
    /\ UNCHANGED <<datos_actuales, ultima_roi_coords, contador_dec_detector, pc>>

\* BoletoCapturador.capturar_frente
CapturarFrente ==
    /\ pc = "idle"
    /\ UNCHANGED varsCamara
    /\ UNCHANGED varsDetector
    /\ UNCHANGED varsColaboradores
    /\ \E frame_alta \in FramesAlta :
         IF frame_alta = None
         THEN /\ ultima_op' = Op("capturar_frente", "False")
              /\ UNCHANGED <<estado, datos_actuales>>
         ELSE /\ datos_actuales' = [datos_actuales EXCEPT !.imagen_frente = frame_alta]
              /\ estado' = FRENTE_CAPTURADO
              /\ ultima_op' = Op("capturar_frente", "True")
    /\ UNCHANGED <<ultima_roi_coords, contador_dec_detector, errores_totales,
                   camara_activa, pc>>

\* capturar_reverso as it would be if the frame were stored as soon as it is
\* obtained, before detection and decoding
CapturarReverso_GuardaAntes ==
    /\ pc = "idle"
    /\ UNCHANGED varsCamara
    /\ UNCHANGED varsDetector
    /\ UNCHANGED varsColaboradores
    /\ \E frame \in FramesAlta, deteccion \in Detecciones,
          codigo \in Decodificaciones, ts \in Timestamps :
         IF frame = None
         THEN /\ ultima_op' = Op("capturar_reverso", "False")
              /\ UNCHANGED <<estado, datos_actuales>>
         ELSE IF deteccion # None /\ codigo = "raise"
         THEN /\ ultima_op' = Op("capturar_reverso", "raise")
              /\ datos_actuales' = [datos_actuales EXCEPT !.imagen_reverso = frame]
              /\ UNCHANGED estado
         ELSE IF deteccion = None \/ codigo = None
         THEN /\ ultima_op' = Op("capturar_reverso", "False")
              /\ datos_actuales' = [datos_actuales EXCEPT !.imagen_reverso = frame]
              /\ UNCHANGED estado
         ELSE /\ datos_actuales' = [datos_actuales EXCEPT
                                       !.imagen_reverso = frame,
                                       !.imagen_roi = deteccion,
                                       !.codigo_barras = codigo,
                                       !.timestamp = ts]
              /\ estado' = REVERSO_CAPTURADO
              /\ ultima_op' = Op("capturar_reverso", "True")
    /\ UNCHANGED <<ultima_roi_coords, contador_dec_detector, errores_totales,
                   camara_activa, pc>>

\* BoletoCapturador.capturar_reverso
CapturarReverso ==
    /\ pc = "idle"
    /\ UNCHANGED varsCamara
    /\ UNCHANGED varsDetector
    /\ UNCHANGED varsColaboradores
    /\ \E frame \in FramesAlta, deteccion \in Detecciones,
          codigo \in Decodificaciones, ts \in Timestamps :
         IF frame = None
         THEN /\ ultima_op' = Op("capturar_reverso", "False")
              /\ UNCHANGED <<estado, datos_actuales>>
         ELSE IF deteccion = None
         THEN /\ ultima_op' = Op("capturar_reverso", "False")
              /\ UNCHANGED <<estado, datos_actuales>>
         ELSE IF codigo = "raise"
         THEN /\ ultima_op' = Op("capturar_reverso", "raise")
              /\ UNCHANGED <<estado, datos_actuales>>
         ELSE IF codigo = None
         THEN /\ ultima_op' = Op("capturar_reverso", "False")
              /\ UNCHANGED <<estado, datos_actuales>>
         ELSE /\ datos_actuales' = [datos_actuales EXCEPT
                                       !.imagen_reverso = frame,
                                       !.imagen_roi = deteccion,
                                       !.codigo_barras = codigo,
                                       !.timestamp = ts]
              /\ estado' = REVERSO_CAPTURADO
              /\ ultima_op' = Op("capturar_reverso", "True")
    /\ UNCHANGED <<ultima_roi_coords, contador_dec_detector, errores_totales,
                   camara_activa, pc>>

\* _reiniciar_para_siguiente_captura as it would be without its last line
ReiniciarParaSiguienteCaptura_SinRoi ==
    /\ estado' = LISTO
    /\ datos_actuales' = DatosVacios
    /\ UNCHANGED ultima_roi_coords

\* BoletoCapturador._reiniciar_para_siguiente_captura
ReiniciarParaSiguienteCaptura ==
    /\ estado' = LISTO
    /\ datos_actuales' = DatosVacios
    /\ ultima_roi_coords' = None

\* reiniciar_captura_actual as it would be without the GUARDANDO check
ReiniciarCapturaActual_SinGuarda ==
    /\ pc = "idle"
    /\ UNCHANGED varsCamara
    /\ UNCHANGED varsDetector
    /\ UNCHANGED varsColaboradores
    /\ estado' = LISTO
    /\ datos_actuales' = DatosVacios
    /\ ultima_roi_coords' = None
    /\ ultima_op' = [Op("reiniciar_captura_actual", "True") EXCEPT
                               !.fallo_pendiente = FALSE]
    /\ UNCHANGED <<contador_dec_detector, errores_totales, camara_activa, pc>>

\* BoletoCapturador.reiniciar_captura_actual
ReiniciarCapturaActual ==
    /\ pc = "idle"
    /\ UNCHANGED varsCamara
    /\ UNCHANGED varsDetector
    /\ UNCHANGED varsColaboradores
    /\ IF estado = GUARDANDO
       THEN /\ ultima_op' = Op("reiniciar_captura_actual", "False")
            /\ UNCHANGED <<estado, datos_actuales, ultima_roi_coords>>
       ELSE /\ ReiniciarParaSiguienteCaptura
            /\ ultima_op' = [Op("reiniciar_captura_actual", "True") EXCEPT
                               !.fallo_pendiente = FALSE]
    /\ UNCHANGED <<contador_dec_detector, errores_totales,
                   camara_activa, pc>>

\* inputs of one live-assist poll: the preview frame, the fast detection and
\* what the decoder would return for the detected region
Polls ==
    {[frame_vista |-> None, deteccion |-> None, codigo |-> None]} \cup
    (IF VistaDisponible
     THEN [frame_vista : Frames, deteccion : DeteccionesRapidas \ Rois, codigo : {None}]
          \cup [frame_vista : Frames, deteccion : Rois, codigo : Decodificaciones]
     ELSE {})

\* the live-assist decode as it would be without the throttle: the call is
\* counted and the decoder runs on every poll
IntentarDecodificacionConDetector_SinPeriodo(codigo) ==
    /\ contador_dec_detector < MaxContador
    /\ contador_dec_detector' = contador_dec_detector + 1
    /\ IF codigo \in Codigos
       THEN datos_actuales' = [datos_actuales EXCEPT !.codigo_barras = codigo]
       ELSE UNCHANGED datos_actuales

\* BoletoCapturador._intentar_decodificacion_con_detector: counts the call
\* and decodes on every PeriodoDecodificacion-th one; a decoder exception
\* is swallowed
IntentarDecodificacionConDetector(codigo) ==
    /\ contador_dec_detector < MaxContador
    /\ contador_dec_detector' = contador_dec_detector + 1
    /\ IF (contador_dec_detector + 1) % PeriodoDecodificacion = 0
       THEN IF codigo \in Codigos
            THEN datos_actuales' = [datos_actuales EXCEPT !.codigo_barras = codigo]
            ELSE UNCHANGED datos_actuales
       ELSE \* decodificar is not called: its outcome is immaterial
            /\ codigo = None
            /\ UNCHANGED datos_actuales

\* what BoletoCapturador.detectar_roi_tiempo_real returns
CoordsDetectadas(p) ==
    IF p.frame_vista = None \/ p.deteccion \notin Rois
    THEN None
    ELSE CHOOSE k \in Coords : TRUE

\* body of BoletoCapturador.detectar_roi_tiempo_real
DetectarRoi(p) ==
    IF CoordsDetectadas(p) = None
    THEN UNCHANGED <<datos_actuales, contador_dec_detector>>
    ELSE IntentarDecodificacionConDetector(p.codigo)

\* BoletoCapturador.detectar_roi_tiempo_real, polled by the previewer
DetectarRoiTiempoReal ==
    /\ pc = "idle"
    /\ UNCHANGED varsCamara
    /\ UNCHANGED varsDetector
    /\ UNCHANGED varsColaboradores
    /\ \E p \in Polls :
         /\ DetectarRoi(p)
         /\ ultima_op' = Op("detectar_roi_tiempo_real", CoordsDetectadas(p))
    /\ UNCHANGED <<estado, ultima_roi_coords, errores_totales, camara_activa, pc>>

\* BoletoCapturador.actualizar_roi_en_tiempo_real
ActualizarRoiEnTiempoReal ==
    /\ pc = "idle"
    /\ UNCHANGED varsCamara
    /\ UNCHANGED varsDetector
    /\ UNCHANGED varsColaboradores
    /\ \E p \in Polls :
         /\ DetectarRoi(p)
         /\ ultima_roi_coords' = IF CoordsDetectadas(p) # None
                                 THEN CoordsDetectadas(p)
                                 ELSE ultima_roi_coords
         /\ ultima_op' = Op("actualizar_roi_en_tiempo_real", None)
    /\ UNCHANGED <<estado, errores_totales, camara_activa, pc>>

\* BoletoCapturador.obtener_coordenadas_roi_actual; frame is the second
\* preview read, made only when no coordinates are known
ObtenerCoordenadasRoiActual ==
    /\ pc = "idle"
    /\ UNCHANGED varsCamara
    /\ UNCHANGED varsDetector
    /\ UNCHANGED varsColaboradores
    /\ \E p \in Polls, frame \in FramesVista :
         /\ DetectarRoi(p)
         /\ IF CoordsDetectadas(p) # None
            THEN /\ frame = None
                 /\ ultima_roi_coords' = CoordsDetectadas(p)
            ELSE IF ultima_roi_coords = None
            THEN ultima_roi_coords' = IF frame # None THEN CoordsConfig ELSE None
            ELSE /\ frame = None
                 /\ UNCHANGED ultima_roi_coords
         /\ ultima_op' = Op("obtener_coordenadas_roi_actual", ultima_roi_coords')
    /\ UNCHANGED <<estado, errores_totales, camara_activa, pc>>

\* BoletoCapturador.finalizar_captura, up to the assignment of GUARDANDO
FinalizarCapturaInicio ==
    /\ pc = "idle"
    /\ UNCHANGED varsCamara
    /\ UNCHANGED varsDetector
    /\ UNCHANGED varsColaboradores
    /\ estado' = GUARDANDO
    /\ pc' = "guardando"
    /\ ultima_op' = Op("finalizar_captura", "pendiente")
    /\ UNCHANGED <<datos_actuales, ultima_roi_coords, contador_dec_detector,
                   errores_totales, camara_activa>>

\* BoletoCapturador.finalizar_captura, from the code check to the return;
\* resultado is what GestorDatos.finalizar_captura returns (it catches its
\* own exceptions and returns False).  _procesados_totales, a statistic no
\* operation reads, is not modelled.
FinalizarCapturaPersistir ==
    /\ pc = "guardando"
    /\ UNCHANGED varsCamara
    /\ UNCHANGED varsDetector
    /\ UNCHANGED varsColaboradores
    /\ pc' = "idle"
    /\ IF datos_actuales.codigo_barras = None
       THEN /\ estado' = ERROR
            /\ ultima_op' = [ultima_op EXCEPT !.ret = None]
       ELSE \E resultado \in BOOLEAN :
              LET llamada == [llamado |-> TRUE,
                              imagen_frente |-> datos_actuales.imagen_frente,
                              imagen_reverso |-> datos_actuales.imagen_reverso,
                              codigo |-> datos_actuales.codigo_barras,
                              imagen_roi |-> datos_actuales.imagen_roi,
                              resultado |-> resultado]
              IN  IF resultado
                  THEN /\ estado' = LISTO
                       /\ ultima_op' = [ultima_op EXCEPT !.ret = "datos",
                                                         !.gestor = llamada]
                  ELSE /\ ultima_op' = [ultima_op EXCEPT !.ret = None,
                                                         !.gestor = llamada]
                       /\ UNCHANGED estado
    /\ UNCHANGED <<datos_actuales, ultima_roi_coords, contador_dec_detector,
                   errores_totales, camara_activa>>

\* BoletoCapturador.detener: stops the camera and empties the dictionary,
\* the state is not touched.  ManejadorCamara.detener returns at once when
\* the camera is not active; else it clears the slots, and a producer thread
\* that outlived the join may store its frame afterwards
Detener ==
    /\ pc = "idle"
    /\ UNCHANGED varsCamaraSinVista
    /\ UNCHANGED varsDetector
    /\ UNCHANGED varsColaboradores
    /\ camara_activa' = FALSE
    /\ frame_vista' \in IF camara_activa THEN {0, 1} ELSE {frame_vista}
    /\ datos_actuales' = [k \in DOMAIN datos_actuales |-> None]
    /\ ultima_op' = Op("detener", "True")
    /\ UNCHANGED <<estado, ultima_roi_coords, contador_dec_detector,
                   errores_totales, pc>>

Next ==
    \/ IniciarCaptura
    \/ CapturarFrente
    \/ CapturarReverso
    \/ ReiniciarCapturaActual
    \/ DetectarRoiTiempoReal
    \/ ActualizarRoiEnTiempoReal
    \/ ObtenerCoordenadasRoiActual
    \/ FinalizarCapturaInicio
    \/ FinalizarCapturaPersistir
    \/ Detener

Spec == Init /\ [][Next]_vars

TypeOK ==
    /\ estado \in EstadoCaptura
    /\ pc \in {"idle", "guardando"}
    /\ contador_dec_detector \in 0..MaxContador

(* ------------------------------ claims -------------------------------- *)
\* the four artifacts capturar_reverso writes
ArtefactosReverso(d) ==
    <<d.imagen_reverso, d.imagen_roi, d.codigo_barras, d.timestamp>>

\* C1: capturar_reverso invoked in Ready is rejected without side effects: it
\* does not succeed, the state stays Ready and none of back image, ROI image,
\* decoded code and timestamp is written, whatever camera, detector and
\* decoder return.
C1_ReversoEnListoRechazado ==
    [][(ultima_op'.nombre = "capturar_reverso" /\ estado = LISTO)
         => /\ ultima_op'.ret # "True"
            /\ estado' = LISTO
            /\ ArtefactosReverso(datos_actuales') = ArtefactosReverso(datos_actuales)]_vars

\* the edges of the specified state machine, with the operation taking them
AristaEspecificada(desde, hacia, nombre) ==
    \/ desde = LISTO /\ hacia = FRENTE_CAPTURADO /\ nombre = "capturar_frente"
    \/ desde = FRENTE_CAPTURADO /\ hacia = REVERSO_CAPTURADO /\ nombre = "capturar_reverso"
    \/ desde = REVERSO_CAPTURADO /\ hacia = GUARDANDO /\ nombre = "finalizar_captura"
    \/ desde = GUARDANDO /\ hacia \in {LISTO, ERROR} /\ nombre = "finalizar_captura"
    \/ hacia = ERROR
    \/ desde \in {FRENTE_CAPTURADO, REVERSO_CAPTURADO, ERROR} /\ hacia = LISTO
         /\ nombre = "reiniciar_captura_actual"

\* C2: every change of the capture state is one of the specified edges
\* (Ready->FrontCaptured by captureFront, FrontCaptured->BackCaptured by
\* captureBack, BackCaptured->Saving by finalize, Saving->Ready / Saving->Error
\* by the persist outcome, any->Error, {FrontCaptured, BackCaptured,
\* Error}->Ready by reset); no other state change is reachable.
C2_SoloAristasEspecificadas ==
    [][estado' # estado => AristaEspecificada(estado, estado', ultima_op'.nombre)]_vars

\* C3: when finalize is invoked in BackCaptured and the persistence
\* collaborator reports failure, the orchestrator ends in Error and the
\* failure is returned; when it reports success the orchestrator ends in Ready.
C3_FalloPersistenciaLlevaAError ==
    (/\ ultima_op.nombre = "finalizar_captura"
     /\ pc = "idle"
     /\ ultima_op.estado_antes = REVERSO_CAPTURADO
     /\ ultima_op.gestor.llamado)
      => IF ultima_op.gestor.resultado
         THEN estado = LISTO /\ ultima_op.ret = "datos"
         ELSE estado = ERROR /\ ultima_op.ret = None

\* C4: whenever the state is Ready, all five artifacts are empty (in
\* particular after a full cycle ending in a successful save, without a reset).
C4_ListoImplicaArtefactosVacios ==
    estado = LISTO => datos_actuales = DatosVacios

\* C5: a code obtained only by live-preview assist is advisory: finalize hands
\* a decoded code to the persistence collaborator only if captureBack has
\* succeeded in the current cycle.  imagen_reverso is written by a successful
\* capturar_reverso only, so a call without a back image is a call made
\* without a successful captureBack since the artifacts were last emptied.
C5_CodigoEnVivoNoSePersiste ==
    (ultima_op.nombre = "finalizar_captura" /\ ultima_op.gestor.llamado)
      => ultima_op.gestor.imagen_reverso # None

\* C6: reset invoked while the state is Saving is refused: it returns false
\* and leaves the state and every artifact unchanged.
C6_ReinicioRechazadoGuardando ==
    [][(ultima_op'.nombre = "reiniciar_captura_actual" /\ estado = GUARDANDO)
         => /\ ultima_op'.ret = "False"
            /\ estado' = GUARDANDO
            /\ datos_actuales' = datos_actuales]_vars

\* witness of C6: a reset was refused in Saving while artifacts were held
C6_Testigo ==
    /\ ultima_op.nombre = "reiniciar_captura_actual"
    /\ ultima_op.estado_antes = GUARDANDO
    /\ ultima_op.ret = "False"
    /\ datos_actuales.imagen_reverso # None
    /\ datos_actuales.codigo_barras # None

\* C7: reset invoked in FrontCaptured, BackCaptured or Error returns true and
\* leaves the orchestrator in Ready with all five artifacts and the last
\* live-detected region cleared.
C7_ReinicioLimpiaTodo ==
    [][(/\ ultima_op'.nombre = "reiniciar_captura_actual"
        /\ estado \in {FRENTE_CAPTURADO, REVERSO_CAPTURADO, ERROR})
         => /\ ultima_op'.ret = "True"
            /\ estado' = LISTO
            /\ datos_actuales' = DatosVacios
            /\ ultima_roi_coords' = None]_vars

\* witness of C7: a reset accepted in BackCaptured
C7_Testigo ==
    /\ ultima_op.nombre = "reiniciar_captura_actual"
    /\ ultima_op.estado_antes = REVERSO_CAPTURADO
    /\ ultima_op.ret = "True"
    /\ estado = LISTO

\* C8: a captureBack that fails in FrontCaptured does not perform the
\* transition: the state remains FrontCaptured and back image, ROI image,
\* decoded code and timestamp are what they were before the call.
C8_ReversoFallidoSinEfecto ==
    [][(/\ ultima_op'.nombre = "capturar_reverso"
        /\ estado = FRENTE_CAPTURADO
        /\ ultima_op'.ret = "False")
         => /\ estado' = FRENTE_CAPTURADO
            /\ ArtefactosReverso(datos_actuales') = ArtefactosReverso(datos_actuales)]_vars

\* witness of C8: a captureBack failed in FrontCaptured with the camera
\* delivering frames and a live-assist code already stored
C8_Testigo ==
    /\ ultima_op.nombre = "capturar_reverso"
    /\ ultima_op.estado_antes = FRENTE_CAPTURADO
    /\ ultima_op.ret = "False"
    /\ estado = FRENTE_CAPTURADO
    /\ camara_activa
    /\ datos_actuales.codigo_barras # None

\* C9: Error is terminal until reset: once the state is Error, no operation
\* other than reset changes it.
C9_ErrorTerminalHastaReinicio ==
    [][(estado = ERROR /\ ultima_op'.nombre # "reiniciar_captura_actual")
         => estado' = ERROR]_vars

\* the step is a failure of the persistence collaborator during finalize
FalloPersistencia(op) ==
    /\ op.nombre = "finalizar_captura"
    /\ op.gestor.llamado
    /\ ~op.gestor.resultado

\* the step is a failed camera start in iniciar_captura
FalloInicioCamara(op) ==
    /\ op.nombre = "iniciar_captura"
    /\ op.estado_antes = LISTO
    /\ op.ret = "False"

\* C10: the state becomes Error only when the persistence collaborator fails
\* during finalize or the camera cannot be started; every other failed or
\* rejected operation leaves the state as it was when the operation was invoked.
C10_ErrorSoloPorPersistenciaOCamara ==
    [][/\ (estado' = ERROR /\ ultima_op'.estado_antes # ERROR)
            => (FalloPersistencia(ultima_op') \/ FalloInicioCamara(ultima_op'))
       /\ (/\ ultima_op'.ret \in {"False", None}
           /\ ultima_op'.nombre \in {"iniciar_captura", "capturar_frente",
                                     "capturar_reverso", "finalizar_captura",
                                     "reiniciar_captura_actual"}
           /\ ~FalloPersistencia(ultima_op')
           /\ ~FalloInicioCamara(ultima_op'))
            => estado' = ultima_op'.estado_antes]_vars

\* C11: capturar_frente and capturar_reverso never propagate an exception to
\* the caller: a frame-acquisition failure, a detection miss, a decode miss or
\* an internal failure of the detector or decoder is returned as a failure
\* result, never raised.
C11_CapturasNoPropaganExcepcion ==
    ultima_op.nombre \in {"capturar_frente", "capturar_reverso"}
        => ultima_op.ret # "raise"

-----------------------------------------------------------------------------
\* ManejadorCamara (src/core/camara.py): the calling thread and the producer
\* threads it creates.  A statement sequence executed under self._lock is one
\* step; everything else is one step per access to shared state.

\* a producer thread that has been started and has not returned
Vivo(h) == hilos[h].pc \notin {"no", "fin"}

\* producer thread h is inside the body of its loop
EnBucle(h) == hilos[h].pc \in {"leer", "alta", "vista", "notif"}

\* the producer threads that are running
HilosVivos == {h \in 1..MaxHilos : Vivo(h)}

\* the thread object the next Thread(...).start() creates
NuevoHilo == CHOOSE h \in 1..MaxHilos : hilos[h].pc = "no" /\
                 \A g \in 1..MaxHilos : hilos[g].pc = "no" => h <= g

\* threading.Thread(target=...).start()
ArrancarHilo(sim) ==
    /\ \E h \in 1..MaxHilos : hilos[h].pc = "no"
    /\ hilos' = [hilos EXCEPT ![NuevoHilo] = [pc |-> "loop", frame |-> 0, sim |-> sim]]
    /\ hilo_captura' = NuevoHilo

\* loop head of _loop_captura and _loop_simulacion: the while condition and,
\* in _loop_captura, the device check that breaks out of the loop
HiloCondicion(h) ==
    /\ hilos[h].pc = "loop"
    /\ hilos' = [hilos EXCEPT ![h].pc =
                   IF ~(capturando /\ ~evento_detener) THEN "fin"
                   ELSE IF ~hilos[h].sim /\ captura # "abierta" THEN "fin"
                   ELSE "leer"]
    /\ UNCHANGED <<modo_simulacion, activa, capturando, evento_detener, captura,
                   frame_alta_res, frame_vista, hilo_captura, leidos, principal, cam_op>>
    /\ UNCHANGED varsCapturador
    /\ UNCHANGED varsDetector
    /\ UNCHANGED varsColaboradores
    /\ UNCHANGED varsObservacion

\* the read as it would be if a failed read ended the loop
HiloLeer_FalloTermina(h) ==
    /\ hilos[h].pc = "leer"
    /\ \/ /\ hilos[h].sim \/ captura = "abierta"
          /\ leidos < MaxLecturas
          /\ leidos' = leidos + 1
          /\ hilos' = [hilos EXCEPT ![h] = [@ EXCEPT !.pc = "alta", !.frame = leidos + 1]]
       \/ /\ ~hilos[h].sim
          /\ hilos' = [hilos EXCEPT ![h].pc = "fin"]
          /\ UNCHANGED leidos
    /\ UNCHANGED <<modo_simulacion, activa, capturando, evento_detener, captura,
                   frame_alta_res, frame_vista, hilo_captura, principal, cam_op>>
    /\ UNCHANGED varsCapturador
    /\ UNCHANGED varsDetector
    /\ UNCHANGED varsColaboradores
    /\ UNCHANGED varsObservacion

\* self._captura.read() in _loop_captura, the copy of the synthetic image in
\* _loop_simulacion
HiloLeer(h) ==
    /\ hilos[h].pc = "leer"
    /\ \/ /\ hilos[h].sim \/ captura = "abierta"
          /\ leidos < MaxLecturas
          /\ leidos' = leidos + 1
          /\ hilos' = [hilos EXCEPT ![h] = [@ EXCEPT !.pc = "alta", !.frame = leidos + 1]]
       \/ /\ ~hilos[h].sim
          /\ hilos' = [hilos EXCEPT ![h].pc = "loop"]
          /\ UNCHANGED leidos
    /\ UNCHANGED <<modo_simulacion, activa, capturando, evento_detener, captura,
                   frame_alta_res, frame_vista, hilo_captura, principal, cam_op>>
    /\ UNCHANGED varsCapturador
    /\ UNCHANGED varsDetector
    /\ UNCHANGED varsColaboradores
    /\ UNCHANGED varsObservacion

\* the producer as it would be if both slots were written in one critical section
HiloGuardarAlta_Junto(h) ==
    /\ hilos[h].pc = "alta"
    /\ lock = LockLibre
    /\ frame_alta_res' = hilos[h].frame
    /\ frame_vista' = hilos[h].frame
    /\ hilos' = [hilos EXCEPT ![h].pc = "vista"]
    /\ UNCHANGED <<modo_simulacion, activa, capturando, evento_detener, captura,
                   hilo_captura, leidos, principal, cam_op>>
    /\ UNCHANGED varsCapturador
    /\ UNCHANGED varsDetector
    /\ UNCHANGED varsColaboradores
    /\ UNCHANGED varsObservacion

\* first critical section of the loops: self._frame_alta_res = frame.copy()
HiloGuardarAlta(h) ==
    /\ hilos[h].pc = "alta"
    /\ lock = LockLibre
    /\ frame_alta_res' = hilos[h].frame
    /\ hilos' = [hilos EXCEPT ![h].pc = "vista"]
    /\ UNCHANGED <<modo_simulacion, activa, capturando, evento_detener, captura,
                   frame_vista, hilo_captura, leidos, principal, cam_op>>
    /\ UNCHANGED varsCapturador
    /\ UNCHANGED varsDetector
    /\ UNCHANGED varsColaboradores
    /\ UNCHANGED varsObservacion

\* second critical section of the loops: self._frame_vista = frame_vista,
\* with no observer registered: nothing will use the thread's reference to
\* the preview array, which is forgotten here
HiloGuardarVista(h) ==
    /\ hilos[h].pc = "vista"
    /\ lock = LockLibre
    /\ observers = <<>>
    /\ frame_vista' = hilos[h].frame
    /\ hilos' = [hilos EXCEPT ![h] = [@ EXCEPT !.pc = "notif", !.frame = 0]]
    /\ UNCHANGED <<modo_simulacion, activa, capturando, evento_detener, captura,
                   frame_alta_res, hilo_captura, leidos, principal, cam_op>>
    /\ UNCHANGED varsCapturador
    /\ UNCHANGED varsDetector
    /\ UNCHANGED varsColaboradores
    /\ UNCHANGED varsObservacion

\* _notificar_observers with no observer registered, and the frame-rate
\* sleep, then back to the loop head
HiloNotificar(h) ==
    /\ hilos[h].pc = "notif"
    /\ lock = LockLibre
    /\ observers = <<>>
    /\ hilos' = [hilos EXCEPT ![h].pc = "loop"]
    /\ UNCHANGED <<modo_simulacion, activa, capturando, evento_detener, captura,
                   frame_alta_res, frame_vista, hilo_captura, leidos, principal, cam_op>>
    /\ UNCHANGED varsCapturador
    /\ UNCHANGED varsDetector
    /\ UNCHANGED varsColaboradores
    /\ UNCHANGED varsObservacion

\* ManejadorCamara.iniciar(intentos): the early return when already active,
\* otherwise entry into the attempt loop
CamIniciar ==
    /\ principal.pc = "idle"
    /\ \E n \in 0..MaxIntentos :
         IF activa
         THEN /\ cam_op' = CamOp("iniciar", "True")
              /\ UNCHANGED principal
         ELSE /\ cam_op' = [CamOp("iniciar", "pendiente") EXCEPT !.intentos = n]
              /\ principal' = [PrincipalOcioso EXCEPT !.pc = "intento", !.intentos = n]
    /\ UNCHANGED <<modo_simulacion, activa, capturando, evento_detener, captura,
                   frame_alta_res, frame_vista, hilo_captura, hilos, leidos>>
    /\ UNCHANGED varsCapturador
    /\ UNCHANGED varsDetector
    /\ UNCHANGED varsColaboradores
    /\ UNCHANGED varsObservacion

\* one iteration head of the attempt loop: the final return False, the
\* simulation branch, or cv2.VideoCapture(...) followed, when the device
\* opened, by _evento_detener.clear(), _activa = True and _iniciar_hilo_captura
CamIniciarIntento ==
    /\ principal.pc = "intento"
    /\ IF principal.intento >= principal.intentos
       THEN /\ principal' = PrincipalOcioso
            /\ cam_op' = [cam_op EXCEPT !.ret = "False"]
            /\ UNCHANGED <<activa, capturando, evento_detener, captura, hilo_captura, hilos>>
       ELSE IF modo_simulacion
       THEN /\ activa' = TRUE
            /\ ArrancarHilo(TRUE)
            /\ principal' = PrincipalOcioso
            /\ cam_op' = [cam_op EXCEPT !.ret = "True"]
            /\ UNCHANGED <<capturando, evento_detener, captura>>
       ELSE \/ /\ captura' = "cerrada"
               /\ cam_op' = [cam_op EXCEPT !.aperturas = @ + 1]
               /\ principal' = [principal EXCEPT !.pc = "except"]
               /\ UNCHANGED <<activa, capturando, evento_detener, hilo_captura, hilos>>
            \/ /\ captura' = "abierta"
               /\ cam_op' = [cam_op EXCEPT !.aperturas = @ + 1, !.abiertos = @ + 1]
               /\ evento_detener' = FALSE
               /\ activa' = TRUE
               /\ capturando' = TRUE
               /\ ArrancarHilo(FALSE)
               /\ principal' = [principal EXCEPT !.pc = "calentar", !.warmup = 0]
    /\ UNCHANGED <<modo_simulacion, frame_alta_res, frame_vista, leidos>>
    /\ UNCHANGED varsCapturador
    /\ UNCHANGED varsDetector
    /\ UNCHANGED varsColaboradores
    /\ UNCHANGED varsObservacion

\* one self._captura.read() of the warm-up loop, made by the calling thread
CamIniciarCalentar ==
    /\ principal.pc = "calentar"
    /\ IF principal.warmup >= LecturasCalentamiento
       THEN /\ principal' = [principal EXCEPT !.pc = "esperar"]
            /\ UNCHANGED leidos
       ELSE \/ /\ captura = "abierta"
               /\ leidos < MaxLecturas
               /\ leidos' = leidos + 1
               /\ principal' = [principal EXCEPT !.pc = "guardar", !.frame = leidos + 1]
            \/ /\ principal' = [principal EXCEPT !.warmup = @ + 1]
               /\ UNCHANGED leidos
    /\ UNCHANGED <<modo_simulacion, activa, capturando, evento_detener, captura,
                   frame_alta_res, frame_vista, hilo_captura, hilos, cam_op>>
    /\ UNCHANGED varsCapturador
    /\ UNCHANGED varsDetector
    /\ UNCHANGED varsColaboradores
    /\ UNCHANGED varsObservacion

\* critical section of the warm-up loop: both slots from the frame just read
CamIniciarGuardarCalentamiento ==
    /\ principal.pc = "guardar"
    /\ lock = LockLibre
    /\ frame_alta_res' = principal.frame
    /\ frame_vista' = principal.frame
    /\ principal' = [principal EXCEPT !.pc = "esperar", !.frame = 0]
    /\ UNCHANGED <<modo_simulacion, activa, capturando, evento_detener, captura,
                   hilo_captura, hilos, leidos, cam_op>>
    /\ UNCHANGED varsCapturador
    /\ UNCHANGED varsDetector
    /\ UNCHANGED varsColaboradores
    /\ UNCHANGED varsObservacion

\* the 30 polls for a preview frame: return True once one is buffered,
\* otherwise fall through to the direct read
CamIniciarEsperar ==
    /\ principal.pc = "esperar"
    /\ lock = LockLibre
    /\ IF frame_vista # 0
       THEN /\ principal' = PrincipalOcioso
            /\ cam_op' = [cam_op EXCEPT !.ret = "True"]
       ELSE /\ principal' = [principal EXCEPT !.pc = "directo"]
            /\ UNCHANGED cam_op
    /\ UNCHANGED <<modo_simulacion, activa, capturando, evento_detener, captura,
                   frame_alta_res, frame_vista, hilo_captura, hilos, leidos>>
    /\ UNCHANGED varsCapturador
    /\ UNCHANGED varsDetector
    /\ UNCHANGED varsColaboradores
    /\ UNCHANGED varsObservacion

\* the direct self._captura.read() after the polls timed out
CamIniciarDirecto ==
    /\ principal.pc = "directo"
    /\ \/ /\ captura = "abierta"
          /\ leidos < MaxLecturas
          /\ leidos' = leidos + 1
          /\ principal' = [principal EXCEPT !.pc = "guardar_directo", !.frame = leidos + 1]
       \/ /\ principal' = [principal EXCEPT !.pc = "except"]
          /\ UNCHANGED leidos
    /\ UNCHANGED <<modo_simulacion, activa, capturando, evento_detener, captura,
                   frame_alta_res, frame_vista, hilo_captura, hilos, cam_op>>
    /\ UNCHANGED varsCapturador
    /\ UNCHANGED varsDetector
    /\ UNCHANGED varsColaboradores
    /\ UNCHANGED varsObservacion

\* critical section after the direct read, then return True
CamIniciarGuardarDirecto ==
    /\ principal.pc = "guardar_directo"
    /\ lock = LockLibre
    /\ frame_alta_res' = principal.frame
    /\ frame_vista' = principal.frame
    /\ principal' = PrincipalOcioso
    /\ cam_op' = [cam_op EXCEPT !.ret = "True"]
    /\ UNCHANGED <<modo_simulacion, activa, capturando, evento_detener, captura,
                   hilo_captura, hilos, leidos>>
    /\ UNCHANGED varsCapturador
    /\ UNCHANGED varsDetector
    /\ UNCHANGED varsColaboradores
    /\ UNCHANGED varsObservacion

\* the except clause as it would be with the pause after every failed attempt
CamIniciarExcept_PausaSiempre ==
    /\ principal.pc = "except"
    /\ activa' = FALSE
    /\ captura' = None
    /\ cam_op' = [cam_op EXCEPT !.pausas = @ + 1]
    /\ principal' = [principal EXCEPT !.pc = "intento", !.intento = @ + 1]
    /\ UNCHANGED <<modo_simulacion, capturando, evento_detener, frame_alta_res,
                   frame_vista, hilo_captura, hilos, leidos>>
    /\ UNCHANGED varsCapturador
    /\ UNCHANGED varsDetector
    /\ UNCHANGED varsColaboradores
    /\ UNCHANGED varsObservacion

\* the except clause of the attempt loop: _activa = False, release, the
\* one-second pause unless this was the last attempt
CamIniciarExcept ==
    /\ principal.pc = "except"
    /\ activa' = FALSE
    /\ captura' = None
    /\ cam_op' = [cam_op EXCEPT !.pausas =
                    IF principal.intento < principal.intentos - 1 THEN @ + 1 ELSE @]
    /\ principal' = [principal EXCEPT !.pc = "intento", !.intento = @ + 1]
    /\ UNCHANGED <<modo_simulacion, capturando, evento_detener, frame_alta_res,
                   frame_vista, hilo_captura, hilos, leidos>>
    /\ UNCHANGED varsCapturador
    /\ UNCHANGED varsDetector
    /\ UNCHANGED varsColaboradores
    /\ UNCHANGED varsObservacion

\* ManejadorCamara.detener: the early return when inactive, otherwise entry
\* into the stop sequence
CamDetener ==
    /\ principal.pc = "idle"
    /\ IF ~activa
       THEN /\ cam_op' = CamOp("detener", "sin_efecto")
            /\ UNCHANGED principal
       ELSE /\ cam_op' = CamOp("detener", "pendiente")
            /\ principal' = [principal EXCEPT !.pc = "senalar"]
    /\ UNCHANGED <<modo_simulacion, activa, capturando, evento_detener, captura,
                   frame_alta_res, frame_vista, hilo_captura, hilos, leidos>>
    /\ UNCHANGED varsCapturador
    /\ UNCHANGED varsDetector
    /\ UNCHANGED varsColaboradores
    /\ UNCHANGED varsObservacion

\* _detener_hilo_captura up to the join: the early return when _capturando is
\* False, otherwise _capturando = False and _evento_detener.set()
CamDetenerSenalar ==
    /\ principal.pc = "senalar"
    /\ IF ~capturando
       THEN /\ principal' = [principal EXCEPT !.pc = "liberar"]
            /\ UNCHANGED <<capturando, evento_detener>>
       ELSE /\ capturando' = FALSE
            /\ evento_detener' = TRUE
            /\ principal' = [principal EXCEPT !.pc = "unir"]
    /\ UNCHANGED <<modo_simulacion, activa, captura, frame_alta_res, frame_vista,
                   hilo_captura, hilos, leidos, cam_op>>
    /\ UNCHANGED varsCapturador
    /\ UNCHANGED varsDetector
    /\ UNCHANGED varsColaboradores
    /\ UNCHANGED varsObservacion

\* the join as it would be without its timeout
CamDetenerUnir_SinTimeout ==
    /\ principal.pc = "unir"
    /\ hilo_captura # 0 => ~Vivo(hilo_captura)
    /\ cam_op' = [cam_op EXCEPT !.timeout = hilo_captura # 0 /\ Vivo(hilo_captura)]
    /\ hilo_captura' = 0
    /\ principal' = [principal EXCEPT !.pc = "liberar"]
    /\ UNCHANGED <<modo_simulacion, activa, capturando, evento_detener, captura,
                   frame_alta_res, frame_vista, hilos, leidos>>
    /\ UNCHANGED varsCapturador
    /\ UNCHANGED varsDetector
    /\ UNCHANGED varsColaboradores
    /\ UNCHANGED varsObservacion

\* self._hilo_captura.join(timeout=1.0) and self._hilo_captura = None: the
\* join returns when the thread has ended or when the second has passed
CamDetenerUnir ==
    /\ principal.pc = "unir"
    /\ cam_op' = [cam_op EXCEPT !.timeout = hilo_captura # 0 /\ Vivo(hilo_captura)]
    /\ hilo_captura' = 0
    /\ principal' = [principal EXCEPT !.pc = "liberar"]
    /\ UNCHANGED <<modo_simulacion, activa, capturando, evento_detener, captura,
                   frame_alta_res, frame_vista, hilos, leidos>>
    /\ UNCHANGED varsCapturador
    /\ UNCHANGED varsDetector
    /\ UNCHANGED varsColaboradores
    /\ UNCHANGED varsObservacion

\* self._captura.release() with its failure swallowed, and _captura = None
CamDetenerLiberar ==
    /\ principal.pc = "liberar"
    /\ captura' = None
    /\ \E falla \in (IF captura = None THEN {FALSE} ELSE BOOLEAN) :
         cam_op' = [cam_op EXCEPT !.fallo_liberar = falla]
    /\ principal' = [principal EXCEPT !.pc = "limpiar"]
    /\ UNCHANGED <<modo_simulacion, activa, capturando, evento_detener,
                   frame_alta_res, frame_vista, hilo_captura, hilos, leidos>>
    /\ UNCHANGED varsCapturador
    /\ UNCHANGED varsDetector
    /\ UNCHANGED varsColaboradores
    /\ UNCHANGED varsObservacion

\* critical section of detener: both slots set to None
CamDetenerLimpiar ==
    /\ principal.pc = "limpiar"
    /\ lock = LockLibre
    /\ frame_alta_res' = 0
    /\ frame_vista' = 0
    /\ principal' = [principal EXCEPT !.pc = "inactiva"]
    /\ UNCHANGED <<modo_simulacion, activa, capturando, evento_detener, captura,
                   hilo_captura, hilos, leidos, cam_op>>
    /\ UNCHANGED varsCapturador
    /\ UNCHANGED varsDetector
    /\ UNCHANGED varsColaboradores
    /\ UNCHANGED varsObservacion

\* self._activa = False and return
CamDetenerInactiva ==
    /\ principal.pc = "inactiva"
    /\ activa' = FALSE
    /\ principal' = PrincipalOcioso
    /\ cam_op' = [cam_op EXCEPT !.ret = "hecho"]
    /\ UNCHANGED <<modo_simulacion, capturando, evento_detener, captura,
                   frame_alta_res, frame_vista, hilo_captura, hilos, leidos>>
    /\ UNCHANGED varsCapturador
    /\ UNCHANGED varsDetector
    /\ UNCHANGED varsColaboradores
    /\ UNCHANGED varsObservacion

\* the steps of the calling thread inside detener
PasoDetener ==
    \/ CamDetenerSenalar
    \/ CamDetenerUnir
    \/ CamDetenerLiberar
    \/ CamDetenerLimpiar
    \/ CamDetenerInactiva

\* the steps of the calling thread inside iniciar
PasoIniciar ==
    \/ CamIniciarIntento
    \/ CamIniciarCalentar
    \/ CamIniciarGuardarCalentamiento
    \/ CamIniciarEsperar
    \/ CamIniciarDirecto
    \/ CamIniciarGuardarDirecto
    \/ CamIniciarExcept

\* one step of producer thread h
PasoHilo(h) ==
    \/ HiloCondicion(h)
    \/ HiloLeer(h)
    \/ HiloGuardarAlta(h)
    \/ HiloGuardarVista(h)
    \/ HiloNotificar(h)

\* the camera manager driven by one calling thread, with its producer threads
NextCamara ==
    \/ CamIniciar
    \/ PasoIniciar
    \/ CamDetener
    \/ PasoDetener
    \/ \E h \in 1..MaxHilos : PasoHilo(h)

\* a camera manager in either mode, inside an orchestrator that stays idle
InitCamaraSola ==
    InitCapturador /\ InitCamara /\ InitDetectorSinUso /\ InitColaboradoresSinUso

SpecCamara == InitCamaraSola /\ [][NextCamara]_vars

\* the calling thread is scheduled: a call of detener in progress keeps
\* taking steps; nothing is assumed about the producer threads, whose device
\* read may block
SpecCamaraJusta == SpecCamara /\ WF_vars(PasoDetener)

TypeOKCamara ==
    /\ modo_simulacion \in BOOLEAN
    /\ activa \in BOOLEAN
    /\ capturando \in BOOLEAN
    /\ evento_detener \in BOOLEAN
    /\ captura \in {None, "abierta", "cerrada"}
    /\ frame_alta_res \in 0..MaxLecturas
    /\ frame_vista \in 0..MaxLecturas
    /\ hilo_captura \in 0..MaxHilos
    /\ leidos \in 0..MaxLecturas
    /\ \A h \in 1..MaxHilos :
         hilos[h].pc \in {"no", "loop", "leer", "alta", "vista", "notif", "fin"}
    /\ principal.intento <= principal.intentos
    /\ principal.warmup <= LecturasCalentamiento

-----------------------------------------------------------------------------
\* C12: for every interleaving of the producer, iniciar and readers, a read
\* of the native or preview frame never returns a frame older than the one
\* stored by the most recently completed publish: a write to a slot never
\* replaces a buffered frame by one captured earlier.
C12_EscrituraNoRetrocede ==
    [][/\ (frame_alta_res # 0 /\ frame_alta_res' # 0) => frame_alta_res' >= frame_alta_res
       /\ (frame_vista # 0 /\ frame_vista' # 0) => frame_vista' >= frame_vista]_vars

\* C13: a publish stores the native frame and its derived preview frame under
\* one critical section: whenever both slots hold a frame, the buffered
\* preview is the one derived from the buffered native frame.
C13_VistaDerivadaDeAlta ==
    (frame_alta_res # 0 /\ frame_vista # 0) => frame_vista = frame_alta_res

\* the calling thread of iniciar reads the device or writes a frame slot
PrincipalLeeOEscribe ==
    \/ CamIniciarCalentar /\ principal.warmup < LecturasCalentamiento
    \/ CamIniciarGuardarCalentamiento
    \/ CamIniciarDirecto
    \/ CamIniciarGuardarDirecto

\* C14: while the camera is active and a producer thread is running, the
\* thread that called iniciar neither reads the device nor writes a frame slot.
C14_SoloElProductorLeeYEscribe ==
    [][(activa /\ HilosVivos # {}) => ~PrincipalLeeOEscribe]_vars

\* C15: at any time at most one producer thread is running, across any
\* sequence of iniciar, detener (also one whose join timed out) and failed
\* attempts followed by a retry.
C15_UnSoloProductor ==
    Cardinality({h \in 1..MaxHilos : EnBucle(h)}) <= 1

\* C16: whenever iniciar returns True, in real or in simulation mode, a
\* preview frame is already buffered.
C16_ExitoImplicaFramePublicado ==
    (cam_op.nombre = "iniciar" /\ cam_op.ret = "True" /\ principal.pc = "idle")
        => frame_vista # 0

\* C17: in simulation mode, after iniciar returned True the simulation loop
\* keeps running until detener.
C17_SimulacionSigueCorriendo ==
    (/\ modo_simulacion
     /\ cam_op.nombre = "iniciar" /\ cam_op.ret = "True" /\ principal.pc = "idle"
     /\ hilo_captura # 0)
        => Vivo(hilo_captura)

\* C18: if the device never opens, iniciar(n) makes exactly n open attempts,
\* pauses between consecutive attempts only, and returns False with the
\* camera inactive and the device handle None.
C18_FalloTrasNIntentos ==
    (/\ cam_op.nombre = "iniciar" /\ cam_op.ret = "False"
     /\ cam_op.abiertos = 0)
        => /\ cam_op.aperturas = cam_op.intentos
           /\ cam_op.pausas = (IF cam_op.intentos = 0 THEN 0 ELSE cam_op.intentos - 1)
           /\ ~activa
           /\ captura = None

\* iniciar(n) with n >= 2 returned False after the device failed to open n times
C18_Testigo ==
    /\ cam_op.nombre = "iniciar" /\ cam_op.ret = "False"
    /\ cam_op.abiertos = 0
    /\ cam_op.intentos >= 2
    /\ cam_op.aperturas = cam_op.intentos

\* C19: after detener returns the camera is inactive, the device handle is
\* None and both frame slots are None, and the slots stay None until the
\* next iniciar, also when the producer thread outlived the join timeout.
C19_TrasDetenerSlotsVacios ==
    (cam_op.nombre = "detener" /\ cam_op.ret = "hecho")
        => /\ ~activa
           /\ captura = None
           /\ frame_alta_res = 0
           /\ frame_vista = 0

\* C20: detener always terminates: a call in progress completes, with the
\* device handle None and the camera inactive, also when the producer thread
\* never ends or the device release raises.
C20_DetenerTermina ==
    (cam_op.nombre = "detener" /\ cam_op.ret = "pendiente")
        ~> (/\ cam_op.nombre = "detener" /\ cam_op.ret = "hecho"
            /\ principal.pc = "idle"
            /\ ~activa
            /\ captura = None)

\* detener returned although the join timed out, the thread is still alive
\* and the device release raised
C20_Testigo ==
    /\ cam_op.nombre = "detener" /\ cam_op.ret = "hecho"
    /\ cam_op.timeout
    /\ cam_op.fallo_liberar
    /\ HilosVivos # {}
    /\ ~activa

-----------------------------------------------------------------------------
\* ManejadorCamara with clients: a camera that has been started, observers
\* that are registered and removed, readers, and the lock as a variable.

\* the device stops being usable while the handle exists (unplugged, or
\* closed by the driver): from now on isOpened() is False and read() fails
DispositivoSeCierra ==
    /\ captura = "abierta"
    /\ captura' = "cerrada"
    /\ UNCHANGED <<modo_simulacion, activa, capturando, evento_detener,
                   frame_alta_res, frame_vista, hilo_captura, hilos, leidos,
                   principal, cam_op>>
    /\ UNCHANGED varsCapturador
    /\ UNCHANGED varsDetector
    /\ UNCHANGED varsColaboradores
    /\ UNCHANGED varsObservacion

\* second critical section of the loops: self._frame_vista = frame_vista; the
\* thread keeps its reference to the preview array for _notificar_observers
HiloPublicarVista(h) ==
    /\ hilos[h].pc = "vista"
    /\ lock = LockLibre
    /\ frame_vista' = hilos[h].frame
    /\ hilos' = [hilos EXCEPT ![h].pc = "notif"]
    /\ UNCHANGED <<modo_simulacion, activa, capturando, evento_detener, captura,
                   frame_alta_res, hilo_captura, leidos, principal, cam_op>>
    /\ UNCHANGED varsCapturador
    /\ UNCHANGED varsDetector
    /\ UNCHANGED varsColaboradores
    /\ UNCHANGED varsObservacion

\* _notificar_observers: `with self._lock` is entered
HiloTomarLock(h) ==
    /\ hilos[h].pc = "notif"
    /\ lock = LockLibre
    /\ lock' = LockHilo(h)
    /\ hilos' = [hilos EXCEPT ![h].pc = "instantanea"]
    /\ UNCHANGED <<modo_simulacion, activa, capturando, evento_detener, captura,
                   frame_alta_res, frame_vista, hilo_captura, leidos, principal, cam_op>>
    /\ UNCHANGED <<observers, notificacion, mutados>>
    /\ UNCHANGED varsCapturador
    /\ UNCHANGED varsDetector
    /\ UNCHANGED varsColaboradores

\* the snapshot as it would be if the callbacks ran inside the `with` block
HiloInstantanea_SinSoltar(h) ==
    /\ hilos[h].pc = "instantanea"
    /\ notificacion' = [notificacion EXCEPT
                          ![h] = [SinNotificacion EXCEPT !.snapshot = observers]]
    /\ UNCHANGED lock
    /\ hilos' = [hilos EXCEPT ![h].pc = "invocar"]
    /\ UNCHANGED <<modo_simulacion, activa, capturando, evento_detener, captura,
                   frame_alta_res, frame_vista, hilo_captura, leidos, principal, cam_op>>
    /\ UNCHANGED <<observers, mutados>>
    /\ UNCHANGED varsCapturador
    /\ UNCHANGED varsDetector
    /\ UNCHANGED varsColaboradores

\* _notificar_observers: observers_actuales = self._observers.copy() and the
\* end of the `with` block
HiloInstantanea(h) ==
    /\ hilos[h].pc = "instantanea"
    /\ notificacion' = [notificacion EXCEPT
                          ![h] = [SinNotificacion EXCEPT !.snapshot = observers]]
    /\ lock' = LockLibre
    /\ hilos' = [hilos EXCEPT ![h].pc = "invocar"]
    /\ UNCHANGED <<modo_simulacion, activa, capturando, evento_detener, captura,
                   frame_alta_res, frame_vista, hilo_captura, leidos, principal, cam_op>>
    /\ UNCHANGED <<observers, mutados>>
    /\ UNCHANGED varsCapturador
    /\ UNCHANGED varsDetector
    /\ UNCHANGED varsColaboradores

\* list.remove(o): the list without the first occurrence of o
RECURSIVE SinPrimero(_, _)
SinPrimero(lista, o) ==
    IF lista = <<>> THEN <<>>
    ELSE IF Head(lista) = o THEN Tail(lista)
    ELSE <<Head(lista)>> \o SinPrimero(Tail(lista), o)

\* o occurs in the list (`callback in self._observers`)
Contiene(lista, o) == \E i \in 1..Len(lista) : lista[i] = o

\* the observer the for loop of _notificar_observers calls next
SiguienteObserver(h) ==
    notificacion[h].snapshot[Len(notificacion[h].invocados) + 1]

\* what a callback with conduct c, called with array arg, does to the camera
\* manager; a call of agregar_observer, remover_observer or
\* obtener_frame_vista made by the callback has to enter the lock; a write
\* into arg is a write into the buffered preview when arg is the array that
\* _frame_vista refers to
EfectoCallback(c, o, arg) ==
    /\ c \in {"agrega", "remueve", "lee"} => lock = LockLibre
    /\ c = "agrega" => Len(observers) < MaxObservers
    /\ observers' = CASE c = "agrega" -> Append(observers, o)
                      [] c = "remueve" -> SinPrimero(observers, o)
                      [] OTHER -> observers
    /\ mutados' = IF c = "muta" /\ arg = frame_vista
                  THEN mutados \cup {arg} ELSE mutados

\* the locals of _notificar_observers in thread h after one more callback,
\* of conduct c, has been called
Invocado(h, c) ==
    [notificacion[h] EXCEPT
       !.invocados = Append(@, SiguienteObserver(h)),
       !.lanzo = @ \/ c = "lanza",
       !.anidada = @ \/ c \in {"agrega", "remueve", "lee"}]

\* the for loop as it would be if an exception of a callback left the loop
HiloInvocar_LanzaCorta(h) ==
    /\ hilos[h].pc = "invocar"
    /\ IF Len(notificacion[h].invocados) = Len(notificacion[h].snapshot)
       THEN /\ hilos' = [hilos EXCEPT ![h] = [@ EXCEPT !.pc = "loop", !.frame = 0]]
            /\ notificacion' = [notificacion EXCEPT ![h] = SinNotificacion]
            /\ UNCHANGED <<observers, mutados>>
       ELSE \E c \in Conductas :
              /\ EfectoCallback(c, SiguienteObserver(h), hilos[h].frame)
              /\ IF c = "lanza"
                 THEN /\ hilos' = [hilos EXCEPT ![h] = [@ EXCEPT !.pc = "loop", !.frame = 0]]
                      /\ notificacion' = [notificacion EXCEPT ![h] = SinNotificacion]
                 ELSE /\ notificacion' = [notificacion EXCEPT ![h] = Invocado(h, c)]
                      /\ UNCHANGED hilos
    /\ UNCHANGED <<modo_simulacion, activa, capturando, evento_detener, captura,
                   frame_alta_res, frame_vista, hilo_captura, leidos, principal, cam_op>>
    /\ UNCHANGED lock
    /\ UNCHANGED varsCapturador
    /\ UNCHANGED varsDetector
    /\ UNCHANGED varsColaboradores

\* the for loop of _notificar_observers, one iteration per step: the callback
\* is called with the thread's preview array and its exception is swallowed;
\* after the last one, the frame-rate sleep and back to the loop head
HiloInvocar(h) ==
    /\ hilos[h].pc = "invocar"
    /\ IF Len(notificacion[h].invocados) = Len(notificacion[h].snapshot)
       THEN /\ hilos' = [hilos EXCEPT ![h] = [@ EXCEPT !.pc = "loop", !.frame = 0]]
            /\ notificacion' = [notificacion EXCEPT ![h] = SinNotificacion]
            /\ UNCHANGED <<observers, mutados>>
       ELSE \E c \in Conductas :
              /\ EfectoCallback(c, SiguienteObserver(h), hilos[h].frame)
              /\ notificacion' = [notificacion EXCEPT ![h] = Invocado(h, c)]
              /\ UNCHANGED hilos
    /\ UNCHANGED <<modo_simulacion, activa, capturando, evento_detener, captura,
                   frame_alta_res, frame_vista, hilo_captura, leidos, principal, cam_op>>
    /\ UNCHANGED lock
    /\ UNCHANGED varsCapturador
    /\ UNCHANGED varsDetector
    /\ UNCHANGED varsColaboradores

\* one step of producer thread h when observers can be registered
PasoHiloObservado(h) ==
    \/ HiloCondicion(h)
    \/ HiloLeer(h)
    \/ HiloGuardarAlta(h)
    \/ HiloPublicarVista(h)
    \/ HiloTomarLock(h)
    \/ HiloInstantanea(h)
    \/ HiloInvocar(h)

\* agregar_observer and remover_observer called by the client thread: the
\* `with self._lock` block is entered
ObserverTomarLock ==
    /\ principal.pc = "idle"
    /\ lock = LockLibre
    /\ lock' = LockPrincipal
    /\ \E o \in Observadores, m \in {"agregar", "remover"} :
         /\ m = "agregar" => Len(observers) < MaxObservers
         /\ principal' = [principal EXCEPT !.pc = m, !.obs = o]
    /\ UNCHANGED <<modo_simulacion, activa, capturando, evento_detener, captura,
                   frame_alta_res, frame_vista, hilo_captura, hilos, leidos, cam_op>>
    /\ UNCHANGED <<observers, notificacion, mutados>>
    /\ UNCHANGED varsCapturador
    /\ UNCHANGED varsDetector
    /\ UNCHANGED varsColaboradores

\* agregar_observer: self._observers.append(callback), end of the block
AgregarObserver ==
    /\ principal.pc = "agregar"
    /\ observers' = Append(observers, principal.obs)
    /\ lock' = LockLibre
    /\ principal' = PrincipalOcioso
    /\ UNCHANGED <<modo_simulacion, activa, capturando, evento_detener, captura,
                   frame_alta_res, frame_vista, hilo_captura, hilos, leidos, cam_op>>
    /\ UNCHANGED <<notificacion, mutados>>
    /\ UNCHANGED varsCapturador
    /\ UNCHANGED varsDetector
    /\ UNCHANGED varsColaboradores

\* remover_observer: remove the callback if it is in the list, end of the block
RemoverObserver ==
    /\ principal.pc = "remover"
    /\ observers' = IF Contiene(observers, principal.obs)
                    THEN SinPrimero(observers, principal.obs)
                    ELSE observers
    /\ lock' = LockLibre
    /\ principal' = PrincipalOcioso
    /\ UNCHANGED <<modo_simulacion, activa, capturando, evento_detener, captura,
                   frame_alta_res, frame_vista, hilo_captura, hilos, leidos, cam_op>>
    /\ UNCHANGED <<notificacion, mutados>>
    /\ UNCHANGED varsCapturador
    /\ UNCHANGED varsDetector
    /\ UNCHANGED varsColaboradores

\* capturar_frame_alta_resolucion: None at once when the camera is not
\* active, otherwise entry into the polling loop
CamCapturarFrame ==
    /\ principal.pc = "idle"
    /\ IF ~activa
       THEN /\ cam_op' = CamOp("capturar_frame", None)
            /\ UNCHANGED principal
       ELSE /\ cam_op' = CamOp("capturar_frame", "pendiente")
            /\ principal' = [principal EXCEPT !.pc = "sondeo"]
    /\ UNCHANGED <<modo_simulacion, activa, capturando, evento_detener, captura,
                   frame_alta_res, frame_vista, hilo_captura, hilos, leidos>>
    /\ UNCHANGED varsCapturador
    /\ UNCHANGED varsDetector
    /\ UNCHANGED varsColaboradores
    /\ UNCHANGED varsObservacion

\* head of `for i in range(20)`: the return None after the last poll,
\* otherwise the `with self._lock` block is entered
CamSondeoTomarLock ==
    /\ principal.pc = "sondeo"
    /\ IF principal.sondeo >= SondeosCaptura
       THEN /\ principal' = PrincipalOcioso
            /\ cam_op' = [cam_op EXCEPT !.ret = None, !.sondeos = principal.sondeo]
            /\ UNCHANGED lock
       ELSE /\ lock = LockLibre
            /\ lock' = LockPrincipal
            /\ principal' = [principal EXCEPT !.pc = "sondeo_lock"]
            /\ UNCHANGED cam_op
    /\ UNCHANGED <<modo_simulacion, activa, capturando, evento_detener, captura,
                   frame_alta_res, frame_vista, hilo_captura, hilos, leidos>>
    /\ UNCHANGED <<observers, notificacion, mutados>>
    /\ UNCHANGED varsCapturador
    /\ UNCHANGED varsDetector
    /\ UNCHANGED varsColaboradores

\* body of the `with` block of one poll: a copy of the native frame, else a
\* copy of the preview frame, else the block ends with nothing
CamSondeoLeer ==
    /\ principal.pc = "sondeo_lock"
    /\ lock' = LockLibre
    /\ IF frame_alta_res # 0
       THEN /\ principal' = PrincipalOcioso
            /\ cam_op' = [cam_op EXCEPT !.ret = "alta", !.frame = frame_alta_res,
                                        !.sondeos = principal.sondeo + 1]
       ELSE IF frame_vista # 0
       THEN /\ principal' = PrincipalOcioso
            /\ cam_op' = [cam_op EXCEPT !.ret = "vista", !.frame = frame_vista,
                                        !.sondeos = principal.sondeo + 1]
       ELSE /\ principal' = [principal EXCEPT !.pc = "dormir"]
            /\ UNCHANGED cam_op
    /\ UNCHANGED <<modo_simulacion, activa, capturando, evento_detener, captura,
                   frame_alta_res, frame_vista, hilo_captura, hilos, leidos>>
    /\ UNCHANGED <<observers, notificacion, mutados>>
    /\ UNCHANGED varsCapturador
    /\ UNCHANGED varsDetector
    /\ UNCHANGED varsColaboradores

\* the polling loop as it would be without a bound on its polls
CamSondeoDormir_SinCuenta ==
    /\ principal.pc = "dormir"
    /\ principal' = [principal EXCEPT !.pc = "sondeo"]
    /\ UNCHANGED <<modo_simulacion, activa, capturando, evento_detener, captura,
                   frame_alta_res, frame_vista, hilo_captura, hilos, leidos, cam_op>>
    /\ UNCHANGED varsCapturador
    /\ UNCHANGED varsDetector
    /\ UNCHANGED varsColaboradores
    /\ UNCHANGED varsObservacion

\* time.sleep(0.1) after a poll that found nothing, and the next i
CamSondeoDormir ==
    /\ principal.pc = "dormir"
    /\ principal' = [principal EXCEPT !.pc = "sondeo", !.sondeo = @ + 1]
    /\ UNCHANGED <<modo_simulacion, activa, capturando, evento_detener, captura,
                   frame_alta_res, frame_vista, hilo_captura, hilos, leidos, cam_op>>
    /\ UNCHANGED varsCapturador
    /\ UNCHANGED varsDetector
    /\ UNCHANGED varsColaboradores
    /\ UNCHANGED varsObservacion

\* obtener_frame_vista: the `with self._lock` block is entered
CamObtenerVistaTomarLock ==
    /\ principal.pc = "idle"
    /\ lock = LockLibre
    /\ lock' = LockPrincipal
    /\ principal' = [principal EXCEPT !.pc = "leer_vista"]
    /\ UNCHANGED <<modo_simulacion, activa, capturando, evento_detener, captura,
                   frame_alta_res, frame_vista, hilo_captura, hilos, leidos, cam_op>>
    /\ UNCHANGED <<observers, notificacion, mutados>>
    /\ UNCHANGED varsCapturador
    /\ UNCHANGED varsDetector
    /\ UNCHANGED varsColaboradores

\* obtener_frame_vista: None or a copy of the preview frame, end of the block
CamObtenerVista ==
    /\ principal.pc = "leer_vista"
    /\ lock' = LockLibre
    /\ principal' = PrincipalOcioso
    /\ UNCHANGED <<modo_simulacion, activa, capturando, evento_detener, captura,
                   frame_alta_res, frame_vista, hilo_captura, hilos, leidos, cam_op>>
    /\ UNCHANGED <<observers, notificacion, mutados>>
    /\ UNCHANGED varsCapturador
    /\ UNCHANGED varsDetector
    /\ UNCHANGED varsColaboradores

\* the steps of the calling thread inside capturar_frame_alta_resolucion
PasoCapturar ==
    \/ CamSondeoTomarLock
    \/ CamSondeoLeer
    \/ CamSondeoDormir

\* the steps of the client thread inside a `with self._lock` block
PasoConLock ==
    \/ AgregarObserver
    \/ RemoverObserver
    \/ CamObtenerVista

\* the camera manager right after its first iniciar(1) returned True: in real
\* mode the device opened and the first warm-up frame is in both slots, in
\* simulation mode the thread has been started and no frame exists yet
InitEnMarcha ==
    /\ InitCapturador
    /\ InitDetectorSinUso
    /\ InitColaboradoresSinUso
    /\ modo_simulacion \in BOOLEAN
    /\ activa = TRUE
    /\ capturando = ~modo_simulacion
    /\ evento_detener = FALSE
    /\ captura = IF modo_simulacion THEN None ELSE "abierta"
    /\ frame_alta_res = IF modo_simulacion THEN 0 ELSE 1
    /\ frame_vista = IF modo_simulacion THEN 0 ELSE 1
    /\ hilo_captura = 1
    /\ hilos = [h \in 1..MaxHilos |->
                  IF h = 1 THEN [pc |-> "loop", frame |-> 0, sim |-> modo_simulacion]
                  ELSE HiloNoCreado]
    /\ leidos = IF modo_simulacion THEN 0 ELSE 1
    /\ principal = PrincipalOcioso
    /\ cam_op = IF modo_simulacion
                THEN [CamOp("iniciar", "True") EXCEPT !.intentos = 1]
                ELSE [CamOp("iniciar", "True") EXCEPT !.intentos = 1, !.aperturas = 1,
                                                       !.abiertos = 1]
    /\ observers = <<>>
    /\ lock = LockLibre
    /\ notificacion = [h \in 1..MaxHilos |-> SinNotificacion]
    /\ mutados = {}

\* a camera manager used by one client thread, between iniciar and detener
NextObservadores ==
    \/ \E h \in 1..MaxHilos : PasoHiloObservado(h)
    \/ DispositivoSeCierra
    \/ ObserverTomarLock
    \/ CamObtenerVistaTomarLock
    \/ PasoConLock
    \/ CamCapturarFrame
    \/ PasoCapturar

\* a camera manager that is never started, or one that has been started
InitObservadores == InitCamaraSola \/ InitEnMarcha

SpecObservadores == InitObservadores /\ [][NextObservadores]_vars

\* InitEnMarcha as a predicate on the states of SpecCamara
EnMarcha ==
    /\ activa /\ principal = PrincipalOcioso
    /\ capturando = ~modo_simulacion
    /\ ~evento_detener
    /\ captura = (IF modo_simulacion THEN None ELSE "abierta")
    /\ frame_alta_res = (IF modo_simulacion THEN 0 ELSE 1)
    /\ frame_vista = frame_alta_res /\ leidos = frame_vista
    /\ hilo_captura = 1
    /\ hilos = [h \in 1..MaxHilos |->
                  IF h = 1 THEN [pc |-> "loop", frame |-> 0, sim |-> modo_simulacion]
                  ELSE HiloNoCreado]
    /\ cam_op = (IF modo_simulacion
                 THEN [CamOp("iniciar", "True") EXCEPT !.intentos = 1]
                 ELSE [CamOp("iniciar", "True") EXCEPT !.intentos = 1, !.aperturas = 1,
                                                        !.abiertos = 1])

\* ---------------------------------------------------------------------------
\* Claims about the running camera manager and its clients

\* C21: when the producer loop leaves because the device is no longer open
\* (stop was not signalled), the camera is marked inactive.
C21_CierreMarcaInactiva ==
    [][\A h \in 1..MaxHilos :
         (/\ hilos[h].pc = "loop" /\ hilos'[h].pc = "fin"
          /\ capturando /\ ~evento_detener)
            => ~activa']_vars

\* C22: a failed or empty read of _loop_captura sends the thread back to the
\* loop head with both frame slots as they were and without a notification,
\* and the thread only ends at a loop head where stop was signalled or the
\* device is not open.
C22_LecturaFallidaReintenta ==
    [][\A h \in 1..MaxHilos :
         ~hilos[h].sim =>
           /\ (hilos[h].pc = "leer" /\ hilos'[h].pc \notin {"leer", "alta"})
                => /\ hilos'[h].pc = "loop"
                   /\ frame_alta_res' = frame_alta_res
                   /\ frame_vista' = frame_vista
                   /\ notificacion'[h] = SinNotificacion
                   /\ UNCHANGED <<observers, mutados, leidos>>
           /\ (hilos[h].pc # "fin" /\ hilos'[h].pc = "fin")
                => /\ hilos[h].pc = "loop"
                   /\ evento_detener \/ ~capturando \/ captura # "abierta"]_vars

\* a producer thread of real mode is at a read that fails, the device having
\* closed after the loop head, with frames buffered and an observer registered
C22_Testigo ==
    \E h \in 1..MaxHilos :
        /\ ~hilos[h].sim /\ hilos[h].pc = "leer"
        /\ captura = "cerrada"
        /\ frame_alta_res # 0 /\ frame_vista # 0
        /\ observers # <<>>

\* C23: in every notification each observer of the snapshot taken at
\* notification time is called exactly once, in order, with the preview
\* frame, whichever of them throw; a throwing observer does not end the
\* producer thread, which goes on to the loop head for the next frame.
C23_ObserverQueLanzaAislado ==
    [][\A h \in 1..MaxHilos :
         /\ (hilos[h].pc = "invocar" /\ hilos'[h].pc # "invocar")
              => /\ hilos'[h].pc = "loop"
                 /\ notificacion[h].invocados = notificacion[h].snapshot
         /\ (hilos[h].pc = "instantanea" /\ hilos'[h].pc = "invocar")
              => /\ notificacion'[h].snapshot = observers
                 /\ notificacion'[h].invocados = <<>>
                 /\ hilos'[h].frame = frame_vista
         /\ (hilos[h].pc = "invocar" /\ hilos'[h].pc = "invocar"
             /\ notificacion'[h] # notificacion[h])
              => /\ notificacion'[h].snapshot = notificacion[h].snapshot
                 /\ notificacion'[h].invocados =
                      Append(notificacion[h].invocados, SiguienteObserver(h))
                 /\ hilos'[h].frame = hilos[h].frame]_vars

\* a notification of two observers is complete although one of them threw
C23_Testigo ==
    \E h \in 1..MaxHilos :
        /\ hilos[h].pc = "invocar"
        /\ Len(notificacion[h].snapshot) = 2
        /\ notificacion[h].invocados = notificacion[h].snapshot
        /\ notificacion[h].lanzo

\* C24: the lock is held by a producer thread only while it copies the
\* observer list, and by the client thread only inside the `with` block of a
\* poll, of obtener_frame_vista, of agregar_observer or of remover_observer:
\* never while a callback runs, during the sleep between polls or during a
\* read of the device.
C24_LockSoloEnSeccionCritica ==
    /\ lock.de = "hilo" => hilos[lock.h].pc = "instantanea"
    /\ lock.de = "principal"
         => principal.pc \in {"sondeo_lock", "leer_vista", "agregar", "remover"}
    /\ \A h \in 1..MaxHilos :
         hilos[h].pc \in {"leer", "invocar"} => lock # LockHilo(h)
    /\ principal.pc \in {"idle", "sondeo", "dormir"} => lock # LockPrincipal

\* a callback has called agregar_observer, remover_observer or
\* obtener_frame_vista from inside a notification and has returned
C24_Testigo ==
    \E h \in 1..MaxHilos :
        /\ hilos[h].pc = "invocar"
        /\ notificacion[h].anidada
        /\ notificacion[h].invocados # <<>>

\* C25: the array a consumer receives is never the buffered array, so no
\* write of a consumer into what it received reaches the buffered preview
\* frame that later reads copy.
C25_ConsumidorNoAlteraBuffer ==
    frame_vista # 0 => frame_vista \notin mutados

\* the camera manager with clients under a scheduler that lets the calling
\* thread of capturar_frame_alta_resolucion run: its sleep ends, and it gets
\* the lock, which a producer holds only for the copy of the observer list
SpecObservadoresJusta ==
    /\ SpecObservadores
    /\ SF_vars(PasoCapturar)
    /\ \A h \in 1..MaxHilos : WF_vars(HiloInstantanea(h))

\* a call of capturar_frame_alta_resolucion has returned
CapturaDevuelta ==
    /\ cam_op.nombre = "capturar_frame"
    /\ cam_op.ret # "pendiente"
    /\ principal.pc = "idle"

\* C26: capturar_frame_alta_resolucion returns None at once when the camera
\* is inactive; otherwise each poll returns a copy of the native frame if
\* there is one, else a copy of the preview frame if there is one; after 20
\* polls that found neither it returns None; every call returns.
C26_SondeoAcotado ==
    /\ [][/\ (principal.pc = "idle" /\ principal'.pc = "sondeo") => activa
          /\ (~activa /\ cam_op' # cam_op /\ cam_op'.nombre = "capturar_frame")
               => (principal'.pc = "idle" /\ cam_op'.ret = None /\ cam_op'.sondeos = 0)
          /\ (principal.pc = "sondeo_lock" /\ principal'.pc # "sondeo_lock")
               => IF frame_alta_res # 0
                  THEN /\ cam_op'.ret = "alta" /\ cam_op'.frame = frame_alta_res
                       /\ principal'.pc = "idle"
                  ELSE IF frame_vista # 0
                  THEN /\ cam_op'.ret = "vista" /\ cam_op'.frame = frame_vista
                       /\ principal'.pc = "idle"
                  ELSE principal'.pc = "dormir" /\ cam_op'.ret = "pendiente"
          /\ (principal.pc = "sondeo" /\ principal'.pc = "idle")
               => (cam_op'.ret = None /\ principal.sondeo = SondeosCaptura)]_vars
    /\ [](principal.sondeo <= SondeosCaptura)
    /\ [](CapturaDevuelta => cam_op.sondeos <= SondeosCaptura)
    /\ ((cam_op.nombre = "capturar_frame" /\ cam_op.ret = "pendiente")
          ~> CapturaDevuelta)

\* a call on an active camera has returned None after 20 polls that found
\* neither frame
C26_Testigo ==
    /\ CapturaDevuelta
    /\ activa
    /\ cam_op.ret = None
    /\ cam_op.sondeos = SondeosCaptura

\* ---------------------------------------------------------------------------
\* DetectorBarrasAutomatico: the strategy cascade and the ROI extension.
\* Lengths are pixels; scores and confidences are thousandths (0.4 is 400).

\* self.min_ancho, self.min_alto, self.min_confianza
MinAncho == 100
MinAlto == 30
MinConfianza == 400
\* self.extension_porcentaje, self.margen_superior_porcentaje and the lateral
\* margin of _extender_roi_con_texto, in percent
ExtensionPorcentaje == 100
MargenSuperiorPorcentaje == 20
MargenLateralPorcentaje == 10
\* the threshold of detectar_rapido and the confidence of a pyzbar result
UmbralRapido == 300
ConfianzaPyzbar == 950

\* EstrategiaDeteccion
PYZBAR_DIRECTO == "pyzbar_directo"
GRADIENTE_VERTICAL == "gradiente_vertical"
PROYECCION_HORIZONTAL == "proyeccion_horizontal"
CONTORNOS_MORFOLOGICOS == "contornos_morfologicos"

Max(a, b) == IF a >= b THEN a ELSE b
Min(a, b) == IF a <= b THEN a ELSE b

\* the extension as it would be without the adjustment to the image limits
ExtenderRoi_SinLimites(c, img) ==
    IF c.h <= 0 \/ c.w <= 0 THEN c
    ELSE LET extension_px == (c.h * ExtensionPorcentaje) \div 100
             margen_superior_px == (c.h * MargenSuperiorPorcentaje) \div 100
             margen_lateral_px == (c.w * MargenLateralPorcentaje) \div 100
         IN  [x |-> c.x - margen_lateral_px, y |-> c.y - margen_superior_px,
              w |-> c.w + 2 * margen_lateral_px,
              h |-> c.h + extension_px + margen_superior_px]

\* _extender_roi_con_texto: int() of a non-negative quotient is its floor
ExtenderRoi(c, img) ==
    IF c.h <= 0 \/ c.w <= 0 THEN c
    ELSE LET extension_px == (c.h * ExtensionPorcentaje) \div 100
             margen_superior_px == (c.h * MargenSuperiorPorcentaje) \div 100
             y_ext == Max(0, c.y - margen_superior_px)
             h_ext == c.h + extension_px + margen_superior_px
             alto_disponible == img.alto - y_ext
             margen_lateral_px == (c.w * MargenLateralPorcentaje) \div 100
             x_ext == Max(0, c.x - margen_lateral_px)
         IN  [x |-> x_ext, y |-> y_ext,
              w |-> Min(img.ancho - x_ext, c.w + 2 * margen_lateral_px),
              h |-> Min(h_ext, alto_disponible)]

\* a DeteccionBarras
Deteccion(c, img, estrategia, confianza) ==
    [coordenadas |-> ExtenderRoi(c, img), original |-> c,
     estrategia_usada |-> estrategia, confianza |-> confianza]

\* _detectar_con_pyzbar: the bounding box of the polygon of the first symbol,
\* its corner clamped at 0, extended, and kept if it has the minimum size
CajaPyzbar(img) ==
    LET x == Max(0, img.caja.minx)
        y == Max(0, img.caja.miny)
    IN  [x |-> x, y |-> y, w |-> img.caja.maxx - x, h |-> img.caja.maxy - y]

DetectarConPyzbar(img) ==
    IF ~img.pyzbar THEN SinResultado
    ELSE LET ext == ExtenderRoi(CajaPyzbar(img), img)
         IN  IF ext.w >= MinAncho /\ ext.h >= MinAlto
             THEN Deteccion(CajaPyzbar(img), img, PYZBAR_DIRECTO, ConfianzaPyzbar)
             ELSE SinResultado

\* the box of a connected component, of a projection segment or of a contour:
\* the part of the pattern that lies in the image
CajaEnImagen(img) ==
    LET x == Max(0, img.caja.minx)
        y == Max(0, img.caja.miny)
    IN  [x |-> x, y |-> y,
         w |-> Min(img.ancho, img.caja.maxx) - x,
         h |-> Min(img.alto, img.caja.maxy) - y]

\* _detectar_con_gradientes: the geometric filters of a component (size,
\* at most 80% of the width and 50% of the height, aspect ratio in
\* [1.5, 15]); the best region is returned if its score exceeds min_confianza
RegionGradiente(img) ==
    LET c == CajaEnImagen(img)
    IN  /\ img.puntaje_gradiente > 0
        /\ c.w >= MinAncho /\ c.h >= MinAlto
        /\ 10 * c.w <= 8 * img.ancho /\ 2 * c.h <= img.alto
        /\ 2 * c.w >= 3 * c.h /\ c.w <= 15 * c.h

DetectarConGradientes(img) ==
    IF RegionGradiente(img) /\ img.puntaje_gradiente > MinConfianza
    THEN Deteccion(CajaEnImagen(img), img, GRADIENTE_VERTICAL, img.puntaje_gradiente)
    ELSE SinResultado

\* _detectar_con_proyecciones: a segment of the minimum width with a block of
\* the minimum height; confianza = min(1.0, min(w/h, 10.0)/10.0*0.7 + 0.3)
ConfianzaProyeccion(c) ==
    Min(1000, (Min(c.w * 1000, 10000 * c.h) * 7) \div (100 * c.h) + 300)

DetectarConProyecciones(img) ==
    LET c == CajaEnImagen(img)
    IN  IF img.proyeccion /\ c.w >= MinAncho /\ c.h >= MinAlto
        THEN Deteccion(c, img, PROYECCION_HORIZONTAL, ConfianzaProyeccion(c))
        ELSE SinResultado

\* _detectar_con_contornos: the geometric filters of a contour (size, at most
\* 70% of the width, at least as wide as high); the best contour is returned
\* if its confidence exceeds min_confianza
RegionContornos(img) ==
    LET c == CajaEnImagen(img)
    IN  /\ img.confianza_contornos > 0
        /\ c.w >= MinAncho /\ c.h >= MinAlto
        /\ 10 * c.w <= 7 * img.ancho
        /\ c.w >= c.h

DetectarConContornos(img) ==
    IF RegionContornos(img) /\ img.confianza_contornos > MinConfianza
    THEN Deteccion(CajaEnImagen(img), img, CONTORNOS_MORFOLOGICOS,
                   img.confianza_contornos)
    ELSE SinResultado

\* what a strategy returns for the image
Estrategia(e, img) ==
    CASE e = PYZBAR_DIRECTO -> DetectarConPyzbar(img)
      [] e = GRADIENTE_VERTICAL -> DetectarConGradientes(img)
      [] e = PROYECCION_HORIZONTAL -> DetectarConProyecciones(img)
      [] e = CONTORNOS_MORFOLOGICOS -> DetectarConContornos(img)

\* the test detectar and detectar_rapido put on the result of a strategy
Aceptada(e, d, umbral) ==
    /\ d # SinResultado
    /\ e # PYZBAR_DIRECTO => d.confianza >= umbral

\* the cascade: the strategies of the list are run in order until one is
\* accepted; the result and the strategies that were run
RECURSIVE Cascada(_, _, _, _)
Cascada(lista, img, umbral, ejecutadas) ==
    IF lista = <<>>
    THEN [resultado |-> SinResultado, ejecutadas |-> ejecutadas]
    ELSE LET e == Head(lista)
             d == Estrategia(e, img)
         IN  IF Aceptada(e, d, umbral)
             THEN [resultado |-> d, ejecutadas |-> Append(ejecutadas, e)]
             ELSE Cascada(Tail(lista), img, umbral, Append(ejecutadas, e))

EstrategiasDetectar ==
    <<PYZBAR_DIRECTO, GRADIENTE_VERTICAL, PROYECCION_HORIZONTAL, CONTORNOS_MORFOLOGICOS>>

EstrategiasRapido == <<PYZBAR_DIRECTO, GRADIENTE_VERTICAL>>

\* corner positions of the patterns in the images: a grid that starts left of
\* (above) the image and ends right of (below) it
Malla == {PasoMalla * i - MargenMalla : i \in 0..(MaxMalla + 1)}

\* bounding boxes of the pattern in an image, as extreme coordinates
Cajas ==
    {[minx |-> a, maxx |-> b, miny |-> c, maxy |-> d] :
        a \in Malla, b \in Malla, c \in Malla, d \in Malla} \ 
    {k \in [minx : Malla, maxx : Malla, miny : Malla, maxy : Malla] :
        k.minx >= k.maxx \/ k.miny >= k.maxy}

\* scores the pixels of a region can give it
Puntajes == {300, 350, 400, 450}

\* the images given to the detector: their size, the pattern in them, and
\* what the pixels make of it in each strategy: whether pyzbar locates a
\* symbol, the score of the best gradient region (0: no region passes the
\* pixel filters), whether the projections find a segment with a block, the
\* confidence of the best contour (0: none passes the solidity filter)
Imagenes ==
    {SinImagen} \cup
    [ancho : {PasoMalla * MaxMalla}, alto : {PasoMalla * (MaxMalla - 1)},
     caja : Cajas, pyzbar : BOOLEAN, puntaje_gradiente : {0} \cup Puntajes,
     proyeccion : BOOLEAN,
     confianza_contornos : {0} \cup {p \in Puntajes : 1000 * p >= 362500}]

\* DetectorBarrasAutomatico.__init__, and the image of the calls to come
InitDetector ==
    /\ InitCapturador
    /\ InitCamara
    /\ InitColaboradoresSinUso
    /\ modo_simulacion = FALSE
    /\ detector \in [imagen : Imagenes, deteccion : {SinDeteccion},
                     detecciones_exitosas : {0}, detecciones_fallidas : {0}]

\* detectar(imagen)
Detectar ==
    /\ detector.detecciones_exitosas + detector.detecciones_fallidas < MaxDetecciones
    /\ LET img == detector.imagen
           r == Cascada(EstrategiasDetectar, img, MinConfianza, <<>>)
       IN  IF img.ancho = 0 \/ img.alto = 0
           THEN detector' = [detector EXCEPT !.deteccion =
                  [llamada |-> "detectar", resultado |-> SinResultado, ejecutadas |-> <<>>]]
           ELSE detector' = [detector EXCEPT
                  !.deteccion = [llamada |-> "detectar", resultado |-> r.resultado,
                                 ejecutadas |-> r.ejecutadas],
                  !.detecciones_exitosas = IF r.resultado # SinResultado THEN @ + 1 ELSE @,
                  !.detecciones_fallidas = IF r.resultado = SinResultado THEN @ + 1 ELSE @]
    /\ UNCHANGED varsCapturador
    /\ UNCHANGED varsCamara
    /\ UNCHANGED varsColaboradores

\* detectar_rapido(imagen)
DetectarRapido ==
    /\ LET r == Cascada(EstrategiasRapido, detector.imagen, UmbralRapido, <<>>)
       IN  detector' = [detector EXCEPT
             !.deteccion = [llamada |-> "detectar_rapido", resultado |-> r.resultado,
                            ejecutadas |-> r.ejecutadas]]
    /\ UNCHANGED varsCapturador
    /\ UNCHANGED varsCamara
    /\ UNCHANGED varsColaboradores

NextDetector ==
    \/ Detectar
    \/ DetectarRapido

SpecDetector == InitDetector /\ [][NextDetector]_vars

\* ---------------------------------------------------------------------------
\* Claims about the detector

\* C27: detectar runs the strategies in the order pyzbar, gradients,
\* projections, contours up to the first accepted one and returns its
\* result: the result of pyzbar whenever pyzbar locates a symbol, a result of
\* the other three only with confidence at least 0.4; it returns None
\* exactly when all four were run and none was accepted.
C27_CascadaPrimeraAceptada ==
    (detector.deteccion.llamada = "detectar" /\ detector.imagen # SinImagen) =>
        LET r == detector.deteccion.resultado
            ej == detector.deteccion.ejecutadas
        IN  /\ ej = SubSeq(EstrategiasDetectar, 1, Len(ej))
            /\ Len(ej) >= 1
            /\ detector.imagen.pyzbar => r.estrategia_usada = PYZBAR_DIRECTO
            /\ r # SinResultado
                 => /\ r.estrategia_usada = ej[Len(ej)]
                    /\ r.estrategia_usada # PYZBAR_DIRECTO
                         => r.confianza >= MinConfianza
            /\ r = SinResultado => ej = EstrategiasDetectar

\* C28: detectar_rapido runs only pyzbar and gradients, and when pyzbar gives
\* nothing it returns the best gradient region whenever its score is at
\* least 0.3, also when the score is below 0.4.
C28_RapidoUmbralRelajado ==
    detector.deteccion.llamada = "detectar_rapido" =>
        LET r == detector.deteccion.resultado
            ej == detector.deteccion.ejecutadas
        IN  /\ ej = SubSeq(EstrategiasRapido, 1, Len(ej))
            /\ (/\ DetectarConPyzbar(detector.imagen) = SinResultado
                /\ RegionGradiente(detector.imagen)
                /\ detector.imagen.puntaje_gradiente >= UmbralRapido)
                 => /\ r.estrategia_usada = GRADIENTE_VERTICAL
                    /\ r.confianza = detector.imagen.puntaje_gradiente

\* C29: the coordinates of every result of detectar and detectar_rapido have
\* positive width and height and lie inside the image, whatever box the
\* strategy found, also one that touches or crosses the image edges.
C29_RegionDentroDeImagen ==
    detector.deteccion.resultado # SinResultado =>
        LET k == detector.deteccion.resultado.coordenadas
        IN  /\ k.w > 0 /\ k.h > 0
            /\ 0 <= k.x /\ 0 <= k.y
            /\ k.x + k.w <= detector.imagen.ancho
            /\ k.y + k.h <= detector.imagen.alto

\* a result was returned for a symbol whose polygon crosses the left and the
\* bottom edge of the image
C29_Testigo ==
    /\ detector.deteccion.resultado # SinResultado
    /\ detector.deteccion.resultado.estrategia_usada = PYZBAR_DIRECTO
    /\ detector.imagen.caja.minx < 0
    /\ detector.imagen.caja.maxy > detector.imagen.alto

\* C30: for every detected box of height H and top edge y, the extended box
\* is at least 2 H high unless the image bottom cuts it, its top edge is at
\* most y - 0.2 H unless it is cut at the image top, and it contains the
\* detected box.
C30_ExtensionRoi ==
    detector.deteccion.resultado # SinResultado =>
        LET k == detector.deteccion.resultado.coordenadas
            c == detector.deteccion.resultado.original
        IN  /\ k.y + k.h < detector.imagen.alto => k.h >= 2 * c.h
            /\ k.y > 0 => 5 * k.y <= 5 * c.y - c.h
            /\ k.x <= c.x /\ k.y <= c.y
            /\ (c.x + c.w <= detector.imagen.ancho) => k.x + k.w >= c.x + c.w
            /\ (c.y + c.h <= detector.imagen.alto) => k.y + k.h >= c.y + c.h

\* ---------------------------------------------------------------------------
\* DecodificadorBarras. A text is a sequence of characters.

\* _validar_codigo: the minimum length of a code
MinLongitud == 8

\* the text of a symbol: n digits between izq and der blanks
Texto(izq, n, der) ==
    [i \in 1..(izq + n + der) |-> IF i <= izq \/ i > izq + n THEN " " ELSE "7"]

\* str.strip(): the text without its leading and trailing blanks
RECURSIVE Strip(_)
Strip(t) ==
    IF t = <<>> THEN t
    ELSE IF Head(t) = " " THEN Strip(Tail(t))
    ELSE IF t[Len(t)] = " " THEN Strip(SubSeq(t, 1, Len(t) - 1))
    ELSE t

ValidarCodigo(codigo) == Len(codigo) >= MinLongitud

\* what decode(version) gives for one variant: no symbol, an exception (of
\* decode or of the utf-8 decoding of the data), or the text of the first symbol
Lecturas ==
    {[tipo |-> "nada", texto |-> <<>>], [tipo |-> "lanza", texto |-> <<>>]} \cup
    {[tipo |-> "texto", texto |-> Texto(MaxEspacios, n, MaxEspacios)] :
        n \in {MinLongitud - 1, MinLongitud}}

\* the regions given to the decoder, as what each of the five variants of
\* _preprocesar_variantes reads (gris, clahe, bn, sharpen, inverted bn)
RoisDecodificables == [1..5 -> Lecturas]

\* the body of the for loop as it would be if the text were validated untrimmed
LeerVariante_SinStrip(l) ==
    IF l.tipo = "texto" /\ ValidarCodigo(l.texto)
    THEN [hay |-> TRUE, codigo |-> Strip(l.texto)]
    ELSE SinCodigo

\* the body of the for loop for one variant: the code it returns, if any
LeerVariante(l) ==
    IF l.tipo = "texto" /\ ValidarCodigo(Strip(l.texto))
    THEN [hay |-> TRUE, codigo |-> Strip(l.texto)]
    ELSE SinCodigo

\* the for loop of decodificar over the variants from the i-th on
RECURSIVE DecodificarDesde(_, _)
DecodificarDesde(roi, i) ==
    IF i > Len(roi) THEN SinCodigo
    ELSE IF LeerVariante(roi[i]).hay THEN LeerVariante(roi[i])
    ELSE DecodificarDesde(roi, i + 1)

InitDecodificador ==
    /\ InitCapturador
    /\ InitCamara
    /\ InitDetectorSinUso
    /\ modo_simulacion = FALSE
    /\ gestor = GestorSinUso
    /\ resolucion = SinResolucion
    /\ decodificador \in [roi : RoisDecodificables \cup {<<>>}, exitos : {0}, fallos : {0},
                          hilos : {[t \in 1..MaxLlamadores |-> LlamadorOcioso]}]

\* decodificar up to the statement that counts: None at once for a roi that
\* is None, otherwise the variants and the loop over them
DecVariantes(t) ==
    /\ decodificador.hilos[t].pc = "idle"
    /\ decodificador' =
         IF decodificador.roi = <<>>
         THEN [decodificador EXCEPT !.hilos[t].pc = "fin"]
         ELSE [decodificador EXCEPT
                 !.hilos[t].pc = "leer",
                 !.hilos[t].ret = DecodificarDesde(decodificador.roi, 1)]
    /\ UNCHANGED <<gestor, resolucion>>
    /\ UNCHANGED varsCapturador
    /\ UNCHANGED varsCamara
    /\ UNCHANGED varsDetector

\* self.exitos += 1 or self.fallos += 1: the attribute is read
DecLeerContador(t) ==
    /\ decodificador.hilos[t].pc = "leer"
    /\ decodificador' = [decodificador EXCEPT
         !.hilos[t].pc = "sumar",
         !.hilos[t].leido = IF decodificador.hilos[t].ret.hay
                            THEN decodificador.exitos ELSE decodificador.fallos]
    /\ UNCHANGED <<gestor, resolucion>>
    /\ UNCHANGED varsCapturador
    /\ UNCHANGED varsCamara
    /\ UNCHANGED varsDetector

\* self.exitos += 1 or self.fallos += 1: the sum is stored, and the return
DecSumar(t) ==
    /\ decodificador.hilos[t].pc = "sumar"
    /\ decodificador' =
         IF decodificador.hilos[t].ret.hay
         THEN [decodificador EXCEPT !.hilos[t].pc = "fin",
                                    !.exitos = decodificador.hilos[t].leido + 1]
         ELSE [decodificador EXCEPT !.hilos[t].pc = "fin",
                                    !.fallos = decodificador.hilos[t].leido + 1]
    /\ UNCHANGED <<gestor, resolucion>>
    /\ UNCHANGED varsCapturador
    /\ UNCHANGED varsCamara
    /\ UNCHANGED varsDetector

NextDecodificador ==
    \E t \in 1..MaxLlamadores :
        \/ DecVariantes(t)
        \/ DecLeerContador(t)
        \/ DecSumar(t)

SpecDecodificador == InitDecodificador /\ [][NextDecodificador]_vars

\* ---------------------------------------------------------------------------
\* Claims about the decoder

C32_ContadoresSumanLlamadas ==
    decodificador.roi # <<>> =>
        decodificador.exitos + decodificador.fallos =
            Cardinality({t \in 1..MaxLlamadores : decodificador.hilos[t].pc = "fin"})

(* ------------------------- live-assist throttle ----------------------- *)
\* the operations that poll the live assist
NombresSondeo ==
    {"detectar_roi_tiempo_real", "actualizar_roi_en_tiempo_real",
     "obtener_coordenadas_roi_actual"}

\* C33: live-assist decoding is throttled: a poll advances the call counter by
\* at most one, and exactly when it yielded a detected region; the stored code
\* changes during a poll only when that poll is a PeriodoDecodificacion-th
\* counted one (the 20th, 40th, ...), so a poll that attempts no decode leaves
\* the stored code unchanged.
C33_DecodificacionCadaVeintePolls ==
    [][/\ contador_dec_detector' # contador_dec_detector
          => /\ contador_dec_detector' = contador_dec_detector + 1
             /\ ultima_op'.nombre \in NombresSondeo
       /\ (/\ ultima_op'.nombre = "detectar_roi_tiempo_real"
           /\ contador_dec_detector < MaxContador)
          => (ultima_op'.ret # None
                <=> contador_dec_detector' = contador_dec_detector + 1)
       /\ (/\ ultima_op'.nombre \in NombresSondeo
           /\ datos_actuales' # datos_actuales)
          => /\ contador_dec_detector' = contador_dec_detector + 1
             /\ contador_dec_detector' % PeriodoDecodificacion = 0
             /\ datos_actuales'.codigo_barras \in Codigos
             /\ datos_actuales' =
                  [datos_actuales EXCEPT
                     !.codigo_barras = datos_actuales'.codigo_barras]]_vars

\* the twentieth counted poll has stored a code while nothing was captured
C33_Testigo ==
    /\ contador_dec_detector = PeriodoDecodificacion
    /\ ultima_op.nombre = "detectar_roi_tiempo_real"
    /\ ultima_op.ret # None
    /\ datos_actuales.codigo_barras \in Codigos
    /\ datos_actuales.imagen_reverso = None

(* --------------------------- preview size ----------------------------- *)
\* the cap ManejadorCamara.iniciar puts on the preview width
MaxAnchoVista == 1280

\* widths and heights a capture device reports, landscape and portrait
Dimensiones == {240, 480, 720, 1080, 1280, 1920, 2448, 3264}

\* int(ancho_vista / (ancho_real / alto_real)) in double arithmetic: the floor
\* of the exact quotient, or one less when the exact quotient is an integer
\* and the two roundings leave the result just under it
AltosVista(ancho_vista, ancho_real, alto_real) ==
    LET q == (ancho_vista * alto_real) \div ancho_real
    IN  IF (ancho_vista * alto_real) % ancho_real = 0 /\ q > 0
        THEN {q, q - 1}
        ELSE {q}

\* a camera whose device has just reported its resolution
InitVista ==
    /\ InitCapturador
    /\ InitCamara
    /\ InitDetectorSinUso
    /\ decodificador = DecodificadorSinUso
    /\ gestor = GestorSinUso
    /\ resolucion \in [ancho : Dimensiones, alto : Dimensiones, calculada : {FALSE},
                       ancho_vista : {0}, alto_vista : {0}, frame_vista : {<<>>}]

\* ManejadorCamara.iniciar, the computation of _resolucion_vista_real
CalcularResolucionVista ==
    /\ ~resolucion.calculada
    /\ LET ancho_vista == Min(MaxAnchoVista, resolucion.ancho)
       IN  \E alto_vista \in AltosVista(ancho_vista, resolucion.ancho, resolucion.alto) :
             resolucion' = [resolucion EXCEPT !.calculada = TRUE,
                                              !.ancho_vista = ancho_vista,
                                              !.alto_vista = alto_vista]
    /\ UNCHANGED <<decodificador, gestor>>
    /\ UNCHANGED varsCapturador
    /\ UNCHANGED varsCamara
    /\ UNCHANGED varsDetector

\* ManejadorCamara._crear_frame_vista on a device frame: the frame resized to
\* the computed preview size
CrearFrameVista ==
    /\ resolucion.calculada
    /\ resolucion.frame_vista = <<>>
    /\ resolucion' = [resolucion EXCEPT
                        !.frame_vista = <<resolucion.ancho_vista, resolucion.alto_vista>>]
    /\ UNCHANGED <<decodificador, gestor>>
    /\ UNCHANGED varsCapturador
    /\ UNCHANGED varsCamara
    /\ UNCHANGED varsDetector

NextVista ==
    \/ CalcularResolucionVista
    \/ CrearFrameVista

SpecVista == InitVista /\ [][NextVista]_vars

\* C34: for every device resolution the computed preview size has its long
\* edge at most 1280 pixels and the aspect ratio of the native resolution up
\* to integer rounding, portrait resolutions included.
C34_VistaAcotadaYProporcional ==
    resolucion.calculada =>
        /\ Max(resolucion.ancho_vista, resolucion.alto_vista) <= MaxAnchoVista
        /\ resolucion.alto_vista * resolucion.ancho
             <= resolucion.ancho_vista * resolucion.alto
        /\ resolucion.ancho_vista * resolucion.alto
             <= (resolucion.alto_vista + 1) * resolucion.ancho

(* ------------------------ persistence manager ------------------------- *)
\* the safety limit of the index search in _buscar_directorio_disponible
LimiteIndice == 1000

\* a character of the class _sanitizar_nombre_carpeta replaces; it is also
\* the path separator
CaracteresInvalidos == {"/"}

\* codes handed to the manager, as sequences of characters: a code, a code
\* that is the first one followed by "_1", and one with an invalid character
CodigosGestor == {<<"7">>, <<"7", "_", "1">>, <<"7", "/", "1">>}

\* values of datetime.now().strftime("%Y%m%d_%H%M%S") during the saves
Marcas == {"T1", "T2"}

\* the images finalizar_captura is given (the others are None)
ConjuntosImagenes == {{"frente", "reverso", "roi"}, {"frente", "reverso"}, {}}

\* where a save can fail: os.makedirs or the permission check, cv2.imwrite of
\* the first image, the open of the metadata file
Fallas == {"ninguna", "directorio", "imagen", "metadatos"}

Digitos == <<"0", "1", "2", "3", "4", "5", "6", "7", "8", "9">>

\* str(indice) inside the f-string of _buscar_directorio_disponible
RECURSIVE Decimal(_)
Decimal(i) ==
    IF i < 10
    THEN <<Digitos[i + 1]>>
    ELSE Decimal(i \div 10) \o <<Digitos[(i % 10) + 1]>>

\* GestorDatos._sanitizar_nombre_carpeta with sanitizar_nombre_carpeta set,
\* on names shorter than 255 characters
Sanitizar(g, nombre) ==
    [i \in 1..Len(nombre) |->
        IF nombre[i] \in CaracteresInvalidos THEN g.caracteres_reemplazo ELSE nombre[i]]

\* str.startswith
EmpiezaCon(s, prefijo) ==
    /\ Len(s) >= Len(prefijo)
    /\ SubSeq(s, 1, Len(prefijo)) = prefijo

\* f"{ruta_directorio}_{indice}"; index 0 stands for the bare name
NombreConIndice(nombre, i) ==
    IF i = 0 THEN nombre ELSE nombre \o <<"_">> \o Decimal(i)

ArchivosEn(g, d) == {a \in g.archivos : a.dir = d}

\* GestorDatos._directorio_tiene_archivos; every file of the model is visible
\* and not empty
DirectorioTieneArchivos(g, d) ==
    d \in g.existentes /\ ArchivosEn(g, d) # {}

\* the while loop of _buscar_directorio_disponible from index i on; <<>>
\* stands for the ErrorGuardadoDatos raised past the limit
RECURSIVE BuscarDesde(_, _, _)
BuscarDesde(g, nombre, i) ==
    IF ~DirectorioTieneArchivos(g, NombreConIndice(nombre, i))
    THEN NombreConIndice(nombre, i)
    ELSE IF i + 1 > LimiteIndice
    THEN <<>>
    ELSE BuscarDesde(g, nombre, i + 1)

\* the directory search as it would be without the index suffix
BuscarDirectorioDisponible_SinIndice(g, nombre) ==
    nombre

\* GestorDatos._buscar_directorio_disponible
BuscarDirectorioDisponible(g, nombre) ==
    IF ~DirectorioTieneArchivos(g, nombre)
    THEN nombre
    ELSE BuscarDesde(g, nombre, 1)

\* the test of iniciar_captura_boleto: the kept directory "corresponds" to the code
Corresponde(g, nombre) ==
    /\ g.directorio_actual # <<>>
    /\ \/ g.directorio_actual = nombre
       \/ EmpiezaCon(g.directorio_actual, nombre \o <<"_">>)

\* GestorDatos.finalizar_captura: iniciar_captura_boleto (with
\* preparar_directorio and _obtener_ruta_directorio_codigo unless the kept
\* directory is reused), guardar_imagen for every image given,
\* guardar_metadatos and finalizar_captura_boleto; an exception at any point
\* is caught and False returned.  File names carry the code as given and the
\* timestamp, so a code with a path separator cannot be written.
FinalizarCapturaGestor(g, codigo, imagenes, marca, falla) ==
    LET nombre == Sanitizar(g, codigo)
        reutilizar == Corresponde(g, nombre) /\ ~g.evitar_sobreescritura
        ruta == IF g.evitar_sobreescritura
                THEN BuscarDirectorioDisponible(g, nombre)
                ELSE nombre
        limpiados == IF ~reutilizar /\ ~g.evitar_sobreescritura
                     THEN ArchivosEn(g, nombre)
                     ELSE {}
        falla_directorio == ~reutilizar /\ (falla = "directorio" \/ ruta = <<>>)
        directorio == IF reutilizar THEN g.directorio_actual
                      ELSE IF ~falla_directorio THEN ruta
                      ELSE IF Corresponde(g, nombre) THEN <<>>
                      ELSE g.directorio_actual
        preparado_para == IF reutilizar THEN g.preparado_para
                          ELSE IF ~falla_directorio THEN codigo
                          ELSE IF Corresponde(g, nombre) THEN <<>>
                          ELSE g.preparado_para
        escribible == \A i \in 1..Len(codigo) : codigo[i] \notin CaracteresInvalidos
        imagenes_ok == ~falla_directorio
                       /\ (imagenes # {} => (falla # "imagen" /\ escribible))
        metadatos_ok == imagenes_ok /\ falla # "metadatos" /\ escribible
        tipos == (IF imagenes_ok THEN imagenes ELSE {})
                 \cup (IF metadatos_ok THEN {"metadata"} ELSE {})
        escritos == {[dir |-> directorio, tipo |-> t, codigo |-> codigo, marca |-> marca] :
                        t \in tipos}
    IN  [g EXCEPT
           !.directorio_actual = IF metadatos_ok /\ g.evitar_sobreescritura
                                 THEN <<>> ELSE directorio,
           !.preparado_para = IF metadatos_ok /\ g.evitar_sobreescritura
                              THEN <<>> ELSE preparado_para,
           !.existentes = IF reutilizar \/ falla_directorio THEN @ ELSE @ \cup {ruta},
           !.archivos = (@ \ limpiados) \cup escritos,
           !.capturas = @ + 1,
           !.ultima = [hay |-> TRUE, codigo |-> codigo,
                       directorio |-> IF falla_directorio THEN <<>> ELSE directorio,
                       preparado_para |-> IF falla_directorio THEN <<>> ELSE preparado_para,
                       escritos |-> escritos, resultado |-> metadatos_ok]]

\* a file left in ruta_base by an earlier run
ArchivoPrevio(d) ==
    [dir |-> d, tipo |-> "metadata", codigo |-> <<"7">>, marca |-> "T0"]

\* ruta_base when the manager is built: empty, or holding the directory of an
\* earlier capture, or that and an empty directory with index 1
DiscosIniciales ==
    {[existentes |-> {}, archivos |-> {}],
     [existentes |-> {<<"7">>}, archivos |-> {ArchivoPrevio(<<"7">>)}],
     [existentes |-> {<<"7">>, <<"7", "_", "1">>}, archivos |-> {ArchivoPrevio(<<"7">>)}]}

\* a manager just built, in either mode and with either replacement character
InitGestor ==
    /\ InitCapturador
    /\ InitCamara
    /\ InitDetectorSinUso
    /\ decodificador = DecodificadorSinUso
    /\ resolucion = SinResolucion
    /\ \E evitar \in BOOLEAN, reemplazo \in {"_", "-"}, disco \in DiscosIniciales :
         gestor = [GestorSinUso EXCEPT !.evitar_sobreescritura = evitar,
                                       !.caracteres_reemplazo = reemplazo,
                                       !.existentes = disco.existentes,
                                       !.archivos = disco.archivos]

\* one call of GestorDatos.finalizar_captura
GestorFinalizarCaptura ==
    /\ gestor.capturas < MaxCapturas
    /\ \E codigo \in CodigosGestor, imagenes \in ConjuntosImagenes,
          marca \in Marcas, falla \in Fallas :
         /\ falla = "imagen" => imagenes # {}
         /\ falla = "directorio" =>
              ~(Corresponde(gestor, Sanitizar(gestor, codigo))
                /\ ~gestor.evitar_sobreescritura)
         /\ gestor' = FinalizarCapturaGestor(gestor, codigo, imagenes, marca, falla)
    /\ UNCHANGED <<decodificador, resolucion>>
    /\ UNCHANGED varsCapturador
    /\ UNCHANGED varsCamara
    /\ UNCHANGED varsDetector

NextGestor == GestorFinalizarCaptura

SpecGestor == InitGestor /\ [][NextGestor]_vars

C36_ModoSobreescrituraSoloUltima ==
    (/\ ~gestor.evitar_sobreescritura
     /\ gestor.ultima.hay
     /\ gestor.ultima.resultado)
      => /\ gestor.ultima.directorio = Sanitizar(gestor, gestor.ultima.codigo)
         /\ ArchivosEn(gestor, gestor.ultima.directorio) = gestor.ultima.escritos

\* C40: with the directory structure 'codigo' the files of a capture are
\* written into a directory named after that capture's own sanitized code,
\* bare or followed by '_<index>', and never into the directory kept from a
\* capture of a different code.
C40_DirectorioDelPropioCodigo ==
    (gestor.ultima.hay /\ gestor.ultima.escritos # {})
      => /\ \E i \in 0..(MaxCapturas + 1) :
               gestor.ultima.directorio =
                   NombreConIndice(Sanitizar(gestor, gestor.ultima.codigo), i)
         /\ gestor.ultima.preparado_para = gestor.ultima.codigo

\* C37: whenever the engine lock is free, a non-empty preview slot implies a
\* non-empty native slot, under every interleaving of the producer loop,
\* iniciar and detener.
C37_VistaImplicaAlta ==
    (lock = LockLibre /\ frame_vista # 0) => frame_alta_res # 0

\* C38: whenever the state is REVERSO_CAPTURADO the back image, the region
\* image, the timestamp and the code are all populated, the code being one
\* that passes the length check of the decoder, after any sequence of
\* operations, live-assist polls and detener included.
C38_ReversoCapturadoTieneDatos ==
    estado = REVERSO_CAPTURADO
        => /\ datos_actuales.imagen_reverso # None
           /\ datos_actuales.imagen_roi # None
           /\ datos_actuales.timestamp # None
           /\ datos_actuales.codigo_barras \in Codigos

(* ------------------------- start of the capture ------------------------ *)
\* the step is a call of iniciar_captura that returns
PasoIniciarCaptura ==
    pc = "idle" /\ pc' = "idle" /\ ultima_op'.nombre = "iniciar_captura"
    /\ (ultima_op' # ultima_op \/ estado' # estado \/ camara_activa' # camara_activa)

\* C39: iniciar_captura tries to start the camera only in LISTO; a failed try
\* sets ERROR and adds one to the error counter; from then on, until a reset,
\* every iniciar_captura returns False without trying to start the camera, so
\* the three calls of the start loop of the window start the camera at most once.
C39_UnSoloArranquePorFallo ==
    [][/\ (PasoIniciarCaptura /\ estado # LISTO)
          => /\ ultima_op'.ret = "False"
             /\ UNCHANGED <<estado, errores_totales, camara_activa, datos_actuales>>
       /\ (PasoIniciarCaptura /\ estado = LISTO /\ ultima_op'.ret = "False")
          => /\ estado' = ERROR
             /\ errores_totales' = errores_totales + 1
       /\ (PasoIniciarCaptura /\ ultima_op.fallo_pendiente)
          => /\ estado # LISTO
             /\ ultima_op'.ret = "False"]_vars

====
